---- MODULE Spec2Model ----
(***************************************************************************)
(* A model of the VCP SDK's verification / hook / adaptation / composition *)
(* core: Orchestrator.verify with its ReplayCache, the HookRegistry and    *)
(* HookExecutor, StateTracker.record, Composer.compose, the                *)
(* RevocationChecker, the identity LocalRegistry and the AuditLogger.      *)
(*                                                                         *)
(* Each subsystem has its own specification over its own variables; the    *)
(* variables of the other subsystems stay at their constructed values.     *)
(***************************************************************************)
EXTENDS Integers, Sequences, FiniteSets, TLC

VARIABLES
    cfg,        \* Orchestrator: which optional collaborators were passed to __init__
    now,        \* the wall clock (datetime.utcnow()), in seconds
    seen,       \* ReplayCache.seen : jti -> exp
    call,       \* the verify call in progress / just returned, or Idle
    admitted,   \* history: per jti, how many in-window verify calls returned VALID
    thr,        \* concurrent verify callers: per thread, its position and locals
    reg,        \* HookRegistry: _deployment_hooks and _session_hooks
    hcall,      \* the registry / executor call in progress / just returned, or Idle
    ex,         \* one HookExecutor.execute run followed hook by hook, with its threads
    trk,        \* a StateTracker: configuration, history and the record call
    comp,       \* a Composer.compose call
    rev,        \* a RevocationChecker: its caches, its clock and the check call
    rc,         \* a ReplayCache used directly: is_seen / record callers
    rthr,       \* concurrent callers of the HookRegistry: per thread, its position
    ctrk,       \* a StateTracker with concurrent record callers
    lreg,       \* a LocalRegistry (identity) and its callers
    audit       \* an AuditLogger: the entries logged

concVars == <<thr>>
vars == <<cfg, now, seen, call, admitted, thr, reg, hcall, ex, trk, comp, rev, rc, rthr, ctrk, lreg, audit>>

\* The variables a subsystem's specification leaves alone
orchRest == <<reg, hcall, ex, trk, comp, rev, rc, rthr, ctrk, lreg, audit>>
hookRest == <<cfg, now, seen, call, admitted, thr, ex, trk, comp, rev, rc, rthr, ctrk, lreg, audit>>
execRest == <<cfg, now, seen, call, admitted, thr, reg, hcall, trk, comp, rev, rc, rthr, ctrk, lreg, audit>>
trackerRest == <<cfg, now, seen, call, admitted, thr, reg, hcall, ex, comp, rev, rc, rthr, ctrk, lreg, audit>>
composeRest == <<cfg, now, seen, call, admitted, thr, reg, hcall, ex, trk, rev, rc, rthr, ctrk, lreg, audit>>

(***************************************************************************)
(* Bounds of the model.                                                    *)
(***************************************************************************)
MaxTime == 3        \* the clock runs over 0..MaxTime
NJti == 2           \* distinct bundle ids (jti)
MaxDefects == 2     \* a verified input deviates from the valid bundle in at most this many fields
ReplayDefects == 1  \* the same, for the inputs of call sequences
NThreads == 2       \* concurrent callers of verify

(***************************************************************************)
(* Program constants.                                                      *)
(***************************************************************************)
MAX_MANIFEST_SIZE == 65536
MAX_CONTENT_SIZE == 262144
CLOCK_SKEW_MINUTES == 5
MAX_EXP_DAYS == 90

SkewSeconds == CLOCK_SKEW_MINUTES * 60
MaxExpSeconds == MAX_EXP_DAYS * 86400

Idle == [state |-> "idle"]

HookType ==
    {"pre_inject", "post_select", "on_transition", "on_conflict", "on_violation",
     "periodic"}

\* HookRegistry.__init__: no hook in any scope
NewRegistry ==
    [deployment |-> [t \in HookType |-> <<>>], session |-> [t \in HookType |-> <<>>]]

\* The other subsystems as constructed
LaterInit == rev = Idle /\ rc = Idle /\ rthr = Idle /\ ctrk = Idle /\ lreg = Idle /\ audit = Idle
OrchRestInit ==
    reg = NewRegistry /\ hcall = Idle /\ ex = Idle /\ trk = Idle /\ comp = Idle /\ LaterInit

RAISED == "RAISED"   \* the call ended with an exception instead of a VerificationResult

VerificationResult ==
    {"VALID", "SIZE_EXCEEDED", "INVALID_SCHEMA", "UNTRUSTED_ISSUER",
     "INVALID_SIGNATURE", "UNTRUSTED_AUDITOR", "INVALID_ATTESTATION",
     "HASH_MISMATCH", "NOT_YET_VALID", "EXPIRED", "FUTURE_TIMESTAMP",
     "REPLAY_DETECTED", "TOKEN_MISMATCH", "BUDGET_EXCEEDED", "SCOPE_MISMATCH",
     "REVOKED", "FETCH_FAILED"}

(***************************************************************************)
(* Inputs of verify.  A bundle is abstracted to what each pipeline step    *)
(* reads of it; the fields revocation and hooks are what the revocation    *)
(* checker and the pre_inject hook chain answer during this call.          *)
(***************************************************************************)
JTIs == 1..NJti

\* jti is unique over the validity window (data model): a jti fixes the
\* manifest's timestamps.  Odd jtis open at 1, even ones at 0.
TimestampsOf(j) ==
    [nbf |-> j % 2, iat |-> j % 2, exp |-> (j % 2) + 1 + (j \div 2)]

ValidFlags ==
    [manifest_size   |-> MAX_MANIFEST_SIZE,
     content_size    |-> MAX_CONTENT_SIZE,
     canon_ok        |-> TRUE,     \* canonicalize_content accepts the content
     hash_ok         |-> TRUE,     \* sha256 of the canonical content = manifest.bundle.content_hash
     issuer_trusted  |-> TRUE,     \* get_issuer_key finds a usable anchor
     sig_encoding_ok |-> TRUE,     \* the signature / key strings base64-decode
     sig_ok          |-> TRUE,     \* the manifest signature verifies under the issuer key
     auditor_trusted |-> TRUE,     \* get_auditor_key finds a usable anchor
     att_ok          |-> TRUE,     \* the attestation signature verifies under the auditor key
     revocation      |-> "clear",  \* clear | revoked | error (the checker raised)
     budget_ok       |-> TRUE,     \* token_count <= int(model_context_limit * max_context_share)
     scope_ok        |-> TRUE,     \* model family / purpose / environment all match
     injection       |-> FALSE,    \* _scan_for_injection has findings
     hooks           |-> "continue"] \* none (empty chain) | continue | abort | raise

Deviations ==
    {<<"manifest_size", MAX_MANIFEST_SIZE + 1>>, <<"content_size", MAX_CONTENT_SIZE + 1>>,
     <<"canon_ok", FALSE>>, <<"hash_ok", FALSE>>, <<"issuer_trusted", FALSE>>,
     <<"sig_encoding_ok", FALSE>>, <<"sig_ok", FALSE>>, <<"auditor_trusted", FALSE>>,
     <<"att_ok", FALSE>>, <<"revocation", "revoked">>, <<"revocation", "error">>,
     <<"budget_ok", FALSE>>, <<"scope_ok", FALSE>>, <<"injection", TRUE>>,
     <<"hooks", "none">>, <<"hooks", "abort">>, <<"hooks", "raise">>}

RECURSIVE Variants(_)
Variants(k) ==
    IF k = 0 THEN {ValidFlags}
    ELSE LET prev == Variants(k - 1)
         IN  prev \cup {[v EXCEPT ![d[1]] = d[2]] : v \in prev, d \in Deviations}

MkBundle(j, ts, f) == [jti |-> j, nbf |-> ts.nbf, iat |-> ts.iat, exp |-> ts.exp, f |-> f]

\* Timestamps at the limits of the temporal checks: iat one second past the
\* clock skew of time 0, and exp at / one second past the maximum lifetime;
\* the last one is at three limits at once when the clock reads 1.
BoundaryTimestamps ==
    {[nbf |-> 0, iat |-> SkewSeconds + 1, exp |-> SkewSeconds + 2],
     [nbf |-> 0, iat |-> 0, exp |-> MaxExpSeconds],
     [nbf |-> 0, iat |-> 0, exp |-> MaxExpSeconds + 1],
     [nbf |-> 1, iat |-> SkewSeconds + 1, exp |-> SkewSeconds + 1 + MaxExpSeconds]}

PipelineTimestamps == {TimestampsOf(1), TimestampsOf(2)} \cup BoundaryTimestamps

\* A ReplayCache handed to __init__: empty, or already holding bundle 1
InitialCaches == {[j \in {} |-> 0], [j \in {1} |-> TimestampsOf(1).exp]}

PipelineFlags == Variants(MaxDefects)
ReplayFlags == Variants(ReplayDefects)

Configs == [hasVerifySig : BOOLEAN, hasRevChecker : BOOLEAN, hasHookExec : BOOLEAN]
FullConfig == [hasVerifySig |-> TRUE, hasRevChecker |-> TRUE, hasHookExec |-> TRUE]

(***************************************************************************)
(* ReplayCache                                                             *)
(***************************************************************************)
EmptyCache == [j \in {} |-> 0]

\* An off-by-one _cleanup: drops the entries with exp <= now
CleanupAtExpiry(cache, t) ==
    [j \in {k \in DOMAIN cache : ~(cache[k] <= t)} |-> cache[j]]

\* _cleanup: drop the entries with exp < now
Cleanup(cache, t) ==
    [j \in {k \in DOMAIN cache : ~(cache[k] < t)} |-> cache[j]]

\* is_seen: _cleanup(), then jti in self.seen
IsSeen(cache, jti, t) ==
    LET cleaned == Cleanup(cache, t)
    IN  [seen |-> cleaned, hit |-> jti \in DOMAIN cleaned]

\* A record that keeps only the newest entry
RecordAlone(cache, jti, exp) == [j \in {jti} |-> exp]

\* record: self.seen[jti] = exp
Record(cache, jti, exp) ==
    [j \in DOMAIN cache \cup {jti} |-> IF j = jti THEN exp ELSE cache[j]]

(***************************************************************************)
(* Orchestrator.verify                                                     *)
(***************************************************************************)
Ret(res, steps, cache, fired) ==
    [result |-> res, steps |-> steps, seen |-> cache, fired |-> fired]

\* verify_content_hash: canonicalize_content raises ValueError on a forbidden
\* or control character; otherwise the computed hash is compared.
VerifyContentHash(b) ==
    IF ~b.f.canon_ok THEN "raise" ELSE IF b.f.hash_ok THEN "match" ELSE "mismatch"

\* Step 4: only when a verify_signature function was given.
SignatureStep(c, b) ==
    IF ~c.hasVerifySig THEN "skip"
    ELSE IF ~b.f.sig_encoding_ok THEN "raise"
    ELSE IF b.f.sig_ok THEN "ok" ELSE "invalid"

\* Step 6: the attestation signature has its "base64:" prefix stripped and is
\* not verified ("For now, we trust the presence of the attestation").
AttestationStep(c, b) == "ok"

\* Step 6b: only when a revocation checker was given; an exception is fail-open.
RevocationStep(c, b) ==
    IF ~c.hasRevChecker THEN "skip"
    ELSE IF b.f.revocation = "revoked" THEN "revoked" ELSE "ok"

\* Temporal checks that reject a bundle at the instant it expires
TemporalStepExclusive(b, t) ==
    IF t < b.nbf THEN "NOT_YET_VALID"
    ELSE IF t >= b.exp THEN "EXPIRED"
    ELSE IF b.iat > t + SkewSeconds THEN "FUTURE_TIMESTAMP"
    ELSE IF b.exp > b.iat + MaxExpSeconds THEN "EXPIRED"
    ELSE "ok"

\* Step 7: the four temporal checks, in the code's order, at clock reading t.
TemporalStep(b, t) ==
    IF t < b.nbf THEN "NOT_YET_VALID"
    ELSE IF t > b.exp THEN "EXPIRED"
    ELSE IF b.iat > t + SkewSeconds THEN "FUTURE_TIMESTAMP"
    ELSE IF b.exp > b.iat + MaxExpSeconds THEN "EXPIRED"
    ELSE "ok"

\* Step 12: only when a hook executor was given.  An aborted chain maps to
\* INVALID_ATTESTATION; an exception of execute is fail-open.
PreInjectStep(c, b) ==
    IF ~c.hasHookExec THEN "skip"
    ELSE IF b.f.hooks = "abort" THEN "aborted" ELSE "ok"

\* Whether a pre_inject hook action was invoked by this step.
HookActionInvoked(c, b) == c.hasHookExec /\ b.f.hooks \in {"continue", "abort"}

\* Steps 9..12, after the jti was recorded in the cache
\* Steps 9..12 with the jti taken out of the cache again unless the result
\* is VALID
AfterReplayValidOnly(c, cache, b, s9) ==
    LET s10 == Append(s9, "budget")
        s11 == Append(s10, "scope")
        s12 == Append(s11, "injection_scan")
        s13 == IF c.hasHookExec THEN Append(s12, "pre_inject") ELSE s12
        without == [j \in DOMAIN cache \ {b.jti} |-> cache[j]]
    IN  IF ~b.f.budget_ok THEN Ret("BUDGET_EXCEEDED", s10, without, FALSE)
        ELSE IF ~b.f.scope_ok THEN Ret("SCOPE_MISMATCH", s11, without, FALSE)
        ELSE IF PreInjectStep(c, b) = "aborted"
             THEN Ret("INVALID_ATTESTATION", s13, without, HookActionInvoked(c, b))
        ELSE Ret("VALID", s13, cache, HookActionInvoked(c, b))

AfterReplay(c, cache, b, s9) ==
    LET s10 == Append(s9, "budget")
        s11 == Append(s10, "scope")
        s12 == Append(s11, "injection_scan")
        s13 == IF c.hasHookExec THEN Append(s12, "pre_inject") ELSE s12
    IN  IF ~b.f.budget_ok THEN Ret("BUDGET_EXCEEDED", s10, cache, FALSE)
        ELSE IF ~b.f.scope_ok THEN Ret("SCOPE_MISMATCH", s11, cache, FALSE)
        ELSE IF PreInjectStep(c, b) = "aborted"
             THEN Ret("INVALID_ATTESTATION", s13, cache, HookActionInvoked(c, b))
        ELSE Ret("VALID", s13, cache, HookActionInvoked(c, b))

\* Steps 7..8: t is the clock read by verify, t2 (>= t) the one read by _cleanup
FromTemporal(c, cache, t, t2, b, s6) ==
    LET s7 == IF c.hasRevChecker THEN Append(s6, "revocation") ELSE s6
        s8 == Append(s7, "temporal")
        s9 == Append(s8, "replay")
        chk == IsSeen(cache, b.jti, t2)
    IN  IF RevocationStep(c, b) = "revoked" THEN Ret("REVOKED", s7, cache, FALSE)
        ELSE IF TemporalStep(b, t) # "ok" THEN Ret(TemporalStep(b, t), s8, cache, FALSE)
        ELSE IF chk.hit THEN Ret("REPLAY_DETECTED", s9, chk.seen, FALSE)
        ELSE AfterReplay(c, Record(chk.seen, b.jti, b.exp), b, s9)

Verify(c, cache, t, t2, b) ==
    LET s1 == <<"size">>
        s2 == Append(s1, "content_hash")
        s3 == Append(s2, "issuer_trust")
        s4 == IF c.hasVerifySig THEN Append(s3, "manifest_signature") ELSE s3
        s5 == Append(s4, "auditor_trust")
        s6 == IF c.hasVerifySig THEN Append(s5, "attestation") ELSE s5
    IN  IF b.f.manifest_size > MAX_MANIFEST_SIZE THEN Ret("SIZE_EXCEEDED", s1, cache, FALSE)
        ELSE IF b.f.content_size > MAX_CONTENT_SIZE THEN Ret("SIZE_EXCEEDED", s1, cache, FALSE)
        ELSE IF VerifyContentHash(b) = "raise" THEN Ret(RAISED, s2, cache, FALSE)
        ELSE IF VerifyContentHash(b) = "mismatch" THEN Ret("HASH_MISMATCH", s2, cache, FALSE)
        ELSE IF ~b.f.issuer_trusted THEN Ret("UNTRUSTED_ISSUER", s3, cache, FALSE)
        ELSE IF SignatureStep(c, b) = "raise" THEN Ret(RAISED, s4, cache, FALSE)
        ELSE IF SignatureStep(c, b) = "invalid" THEN Ret("INVALID_SIGNATURE", s4, cache, FALSE)
        ELSE IF ~b.f.auditor_trusted THEN Ret("UNTRUSTED_AUDITOR", s5, cache, FALSE)
        ELSE IF AttestationStep(c, b) # "ok" THEN Ret("INVALID_ATTESTATION", s6, cache, FALSE)
        ELSE FromTemporal(c, cache, t, t2, b, s6)

(***************************************************************************)
(* Sequential callers: one verify at a time on one Orchestrator.           *)
(***************************************************************************)
ClockReads(t) == {t2 \in t..MaxTime : t2 <= t + 1}

Inc2(n) == IF n < 2 THEN n + 1 ELSE 2

DoVerify(b, t2) ==
    LET r == Verify(cfg, seen, now, t2, b)
    IN  /\ call' = [bundle |-> b, now |-> now, now2 |-> t2, before |-> seen,
                    result |-> r.result, steps |-> r.steps, fired |-> r.fired]
        /\ seen' = r.seen
        /\ now' = t2
        /\ admitted' = IF r.result = "VALID" /\ t2 <= b.exp
                       THEN [admitted EXCEPT ![b.jti] = Inc2(@)]
                       ELSE admitted
        /\ UNCHANGED cfg

Return ==
    /\ call # Idle
    /\ call' = Idle
    /\ UNCHANGED <<cfg, now, seen, admitted>>

Tick ==
    /\ call = Idle
    /\ now < MaxTime
    /\ now' = now + 1
    /\ UNCHANGED <<cfg, seen, call, admitted>>

InitThreads == [t \in 1..NThreads |-> [pc |-> "idle", b |-> [jti |-> 0], expired |-> {}, result |-> "none"]]

InitOrch ==
    /\ now = 0
    /\ seen = EmptyCache
    /\ call = Idle
    /\ admitted = [j \in JTIs |-> 0]

\* The first verify on a newly constructed Orchestrator, of bundle 1 in any
\* condition and with any of the timestamps
VerifyFresh ==
    /\ call = Idle
    /\ \E ts \in PipelineTimestamps, f \in PipelineFlags, t2 \in ClockReads(now) :
        DoVerify(MkBundle(1, ts, f), t2)

InitVerify ==
    /\ cfg \in Configs
    /\ now \in 0..MaxTime
    /\ seen \in InitialCaches
    /\ call = Idle
    /\ admitted = [j \in JTIs |-> 0]
    /\ thr = InitThreads
    /\ OrchRestInit

NextVerify == VerifyFresh /\ UNCHANGED <<concVars, orchRest>>

SpecVerify == InitVerify /\ [][NextVerify]_vars

\* Sequences of verify calls on one Orchestrator while the clock advances
VerifyCall ==
    /\ call = Idle
    /\ \E j \in JTIs, f \in ReplayFlags, t2 \in ClockReads(now) :
        DoVerify(MkBundle(j, TimestampsOf(j), f), t2)

InitReplay ==
    /\ cfg \in Configs
    /\ InitOrch
    /\ thr = InitThreads
    /\ OrchRestInit

NextReplay ==
    \/ VerifyCall /\ UNCHANGED <<concVars, orchRest>>
    \/ Return /\ UNCHANGED <<concVars, orchRest>>
    \/ Tick /\ UNCHANGED <<concVars, orchRest>>

SpecReplay == InitReplay /\ [][NextReplay]_vars

(***************************************************************************)
(* Concurrent callers: several threads inside verify on one Orchestrator.  *)
(* The ReplayCache takes no lock, so threads interleave between the        *)
(* statements of is_seen (_cleanup's scan, its del loop, the membership    *)
(* test) and record.                                                       *)
(***************************************************************************)
Threads == 1..NThreads
NoBundle == [jti |-> 0]
IdleThread == [pc |-> "idle", b |-> NoBundle, expired |-> {}, result |-> "none"]

HasStep(steps, name) == \E i \in 1..Len(steps) : steps[i] = name

\* Steps 1..7 of verify touch only the call's own data and the clock
CStart(t, b) ==
    LET r == Verify(cfg, EmptyCache, now, now, b)
    IN  /\ thr[t].pc = "idle"
        /\ thr' = [thr EXCEPT ![t] =
                     IF HasStep(r.steps, "replay")
                     THEN [pc |-> "scan", b |-> b, expired |-> {}, result |-> "none"]
                     ELSE [pc |-> "done", b |-> b, expired |-> {}, result |-> r.result]]
        /\ UNCHANGED <<cfg, now, seen, call, admitted>>

\* _cleanup: expired = [jti for jti, exp in self.seen.items() if exp < now]
CScan(t) ==
    /\ thr[t].pc = "scan"
    /\ thr' = [thr EXCEPT ![t].pc = "del",
                          ![t].expired = {j \in DOMAIN seen : seen[j] < now}]
    /\ UNCHANGED <<cfg, now, seen, call, admitted>>

\* _cleanup: for jti in expired: del self.seen[jti].  del raises KeyError for
\* an entry another thread has deleted meanwhile; the entries deleted before
\* it are gone.
CDel(t) ==
    /\ thr[t].pc = "del"
    /\ IF thr[t].expired \subseteq DOMAIN seen
       THEN /\ seen' = [j \in DOMAIN seen \ thr[t].expired |-> seen[j]]
            /\ thr' = [thr EXCEPT ![t].pc = "check", ![t].expired = {}]
       ELSE \E gone \in SUBSET (thr[t].expired \cap DOMAIN seen) :
            /\ seen' = [j \in DOMAIN seen \ gone |-> seen[j]]
            /\ thr' = [thr EXCEPT ![t].pc = "done", ![t].expired = {},
                                  ![t].result = RAISED]
    /\ UNCHANGED <<cfg, now, call, admitted>>

\* is_seen: return jti in self.seen
CCheck(t) ==
    /\ thr[t].pc = "check"
    /\ thr' = [thr EXCEPT ![t] =
                 IF thr[t].b.jti \in DOMAIN seen
                 THEN [@ EXCEPT !.pc = "done", !.result = "REPLAY_DETECTED"]
                 ELSE [@ EXCEPT !.pc = "record"]]
    /\ UNCHANGED <<cfg, now, seen, call, admitted>>

\* record, then steps 9..12 on the call's own data
CRecord(t) ==
    LET b == thr[t].b
        r == AfterReplay(cfg, Record(seen, b.jti, b.exp), b, <<>>)
    IN  /\ thr[t].pc = "record"
        /\ seen' = r.seen
        /\ thr' = [thr EXCEPT ![t].pc = "done", ![t].result = r.result]
        /\ admitted' = IF r.result = "VALID" /\ now <= b.exp
                       THEN [admitted EXCEPT ![b.jti] = Inc2(@)]
                       ELSE admitted
        /\ UNCHANGED <<cfg, now, call>>

CReturn(t) ==
    /\ thr[t].pc = "done"
    /\ thr' = [thr EXCEPT ![t] = IdleThread]
    /\ UNCHANGED <<cfg, now, seen, call, admitted>>

CTick ==
    /\ now < MaxTime
    /\ now' = now + 1
    /\ UNCHANGED <<cfg, seen, call, admitted, thr>>

\* Bundles the concurrent callers present: a valid one, one failing before
\* the replay step and one failing after it
ConcurrentFlags ==
    {ValidFlags, [ValidFlags EXCEPT !.issuer_trusted = FALSE],
     [ValidFlags EXCEPT !.budget_ok = FALSE]}

InitConcurrent ==
    /\ cfg = FullConfig
    /\ InitOrch
    /\ thr = [t \in Threads |-> IdleThread]
    /\ OrchRestInit

NextConcurrent ==
    \/ \E t \in Threads :
        /\ thr[t].pc = "idle"
        /\ \E j \in JTIs, f \in ConcurrentFlags : CStart(t, MkBundle(j, TimestampsOf(j), f)) /\ UNCHANGED orchRest
    \/ \E t \in Threads : CScan(t) /\ UNCHANGED orchRest
    \/ \E t \in Threads : CDel(t) /\ UNCHANGED orchRest
    \/ \E t \in Threads : CCheck(t) /\ UNCHANGED orchRest
    \/ \E t \in Threads : CRecord(t) /\ UNCHANGED orchRest
    \/ \E t \in Threads : CReturn(t) /\ UNCHANGED orchRest
    \/ CTick /\ UNCHANGED orchRest

SpecConcurrent == InitConcurrent /\ [][NextConcurrent]_vars

(***************************************************************************)
(* Properties of Orchestrator.verify                                       *)
(***************************************************************************)
StepOrder ==
    <<"size", "content_hash", "issuer_trust", "manifest_signature", "auditor_trust",
      "attestation", "revocation", "temporal", "replay", "budget", "scope",
      "injection_scan", "pre_inject">>

\* The result code the documented pipeline gives step k when its check fails
\* on the input of the recorded call, "ok" when the check passes.
DocStep(k) ==
    LET b == call.bundle
        inCache == b.jti \in DOMAIN call.before /\ call.before[b.jti] >= call.now2
    IN  CASE k = 1 -> IF b.f.manifest_size > MAX_MANIFEST_SIZE
                         \/ b.f.content_size > MAX_CONTENT_SIZE
                      THEN "SIZE_EXCEEDED" ELSE "ok"
          [] k = 2 -> IF b.f.hash_ok THEN "ok" ELSE "HASH_MISMATCH"
          [] k = 3 -> IF b.f.issuer_trusted THEN "ok" ELSE "UNTRUSTED_ISSUER"
          [] k = 4 -> IF b.f.sig_ok THEN "ok" ELSE "INVALID_SIGNATURE"
          [] k = 5 -> IF b.f.auditor_trusted THEN "ok" ELSE "UNTRUSTED_AUDITOR"
          [] k = 6 -> IF b.f.att_ok THEN "ok" ELSE "INVALID_ATTESTATION"
          [] k = 7 -> IF b.f.revocation = "revoked" THEN "REVOKED" ELSE "ok"
          [] k = 8 -> TemporalStep(b, call.now)
          [] k = 9 -> IF inCache THEN "REPLAY_DETECTED" ELSE "ok"
          [] k = 10 -> IF b.f.budget_ok THEN "ok" ELSE "BUDGET_EXCEEDED"
          [] k = 11 -> IF b.f.scope_ok THEN "ok" ELSE "SCOPE_MISMATCH"
          [] k = 12 -> "ok"
          [] k = 13 -> IF b.f.hooks = "abort" THEN "INVALID_ATTESTATION" ELSE "ok"

DocFailing == {k \in 1..Len(StepOrder) : DocStep(k) # "ok"}
DocFirst == CHOOSE k \in DocFailing : \A m \in DocFailing : k <= m

\* The input is one every documented step can evaluate: all collaborators
\* are configured, the content canonicalizes and the signature strings decode.
Evaluable ==
    /\ call # Idle
    /\ cfg = FullConfig
    /\ call.bundle.f.canon_ok
    /\ call.bundle.f.sig_encoding_ok

\* C1: verify runs the documented steps in order and returns the code of the
\* first step whose check fails; the steps that ran are exactly those up to
\* that step, and no pre_inject hook action ran unless every earlier step passed.
C1_FirstFailureShortCircuits ==
    Evaluable =>
        IF DocFailing = {}
        THEN call.result = "VALID" /\ call.steps = StepOrder
        ELSE /\ call.result = DocStep(DocFirst)
             /\ call.steps = SubSeq(StepOrder, 1, DocFirst)
             /\ (DocFirst < Len(StepOrder) => ~call.fired)

\* C9: verify never raises, and content that canonicalization rejects gives
\* INVALID_SCHEMA (once the size check has passed).
C9_FailuresAreValues ==
    call # Idle =>
        /\ call.result \in VerificationResult
        /\ (/\ ~call.bundle.f.canon_ok
            /\ call.bundle.f.manifest_size <= MAX_MANIFEST_SIZE
            /\ call.bundle.f.content_size <= MAX_CONTENT_SIZE
            => call.result = "INVALID_SCHEMA")

\* C10: verify returns VALID only for a bundle whose attestation signature
\* verifies under the auditor's anchor.
C10_AttestationFailClosed ==
    (call # Idle /\ call.result = "VALID") => call.bundle.f.att_ok

ReachedReplay == \E i \in 1..Len(call.steps) : call.steps[i] = "replay"

\* The verify call that just returned failed at the budget or scope step or
\* by a pre_inject hook abort
RejectedAfterReplay ==
    /\ call # Idle
    /\ \/ call.result \in {"BUDGET_EXCEEDED", "SCOPE_MISMATCH"}
       \/ /\ call.result = "INVALID_ATTESTATION"
          /\ \E i \in 1..Len(call.steps) : call.steps[i] = "pre_inject"

\* The original reading of C32: a verify that ends in BUDGET_EXCEEDED,
\* SCOPE_MISMATCH or a pre_inject hook abort leaves the replay cache without
\* the bundle's jti if it was not there before.
C32_RecordedOnlyWhenValid ==
    RejectedAfterReplay =>
        (call.bundle.jti \in DOMAIN seen => call.bundle.jti \in DOMAIN call.before)

\* C32: verify records a bundle's jti when the replay step admits it,
\* whatever the later steps answer, and not otherwise; a verify that reaches
\* the replay step for a jti recorded and not yet expired returns
\* REPLAY_DETECTED.
C32_RecordedAtReplayStep ==
    call # Idle =>
        LET j == call.bundle.jti
            admittedByReplay == ReachedReplay /\ call.result # "REPLAY_DETECTED"
        IN  /\ admittedByReplay => (j \in DOMAIN seen /\ seen[j] = call.bundle.exp)
            /\ ~admittedByReplay => (j \in DOMAIN seen => j \in DOMAIN call.before)
            /\ (/\ ReachedReplay
                /\ j \in DOMAIN call.before
                /\ call.before[j] >= call.now2) => call.result = "REPLAY_DETECTED"

\* C32 witness: a verify that ended in BUDGET_EXCEEDED recorded a jti the
\* cache did not hold
C32_Witness ==
    /\ call # Idle
    /\ call.result = "BUDGET_EXCEEDED"
    /\ call.bundle.jti \in DOMAIN seen
    /\ call.bundle.jti \notin DOMAIN call.before

\* C11: however the Orchestrator was constructed, verify returns VALID only
\* for a bundle whose manifest signature decodes and verifies under the
\* issuer's key.
C11_SignatureFailClosed ==
    (call # Idle /\ call.result = "VALID") =>
        call.bundle.f.sig_encoding_ok /\ call.bundle.f.sig_ok

\* The four temporal conditions, limits included, at the clock reading verify took
InWindow(c) ==
    /\ c.now >= c.bundle.nbf
    /\ c.now <= c.bundle.exp
    /\ c.bundle.iat <= c.now + SkewSeconds
    /\ c.bundle.exp <= c.bundle.iat + MaxExpSeconds

\* C16: verify returns VALID only inside the temporal window, and a bundle
\* with nothing else wrong and not yet seen is VALID everywhere inside it, the
\* limits themselves included.
C16_TemporalWindow ==
    call # Idle =>
        /\ call.result = "VALID" => InWindow(call)
        /\ (/\ InWindow(call)
            /\ call.bundle.f = ValidFlags
            /\ call.bundle.jti \notin DOMAIN Cleanup(call.before, call.now2))
           => call.result = "VALID"

\* A bundle accepted at three limits at once: now = nbf, iat = now + 5 min,
\* exp = iat + 90 days
C16_Witness ==
    /\ call # Idle /\ call.result = "VALID"
    /\ call.now = call.bundle.nbf
    /\ call.bundle.iat = call.now + SkewSeconds
    /\ call.bundle.exp = call.bundle.iat + MaxExpSeconds

\* C3: concurrent is_seen / record calls are safe (no caller fails inside
\* the cache) and, of the concurrent verify calls carrying one jti, at most
\* one made inside the validity window returns VALID.
C3_ConcurrentAdmission ==
    /\ \A j \in JTIs : admitted[j] <= 1
    /\ \A t \in Threads : thr[t].result # RAISED

(***************************************************************************)
(* HookRegistry and HookExecutor.                                          *)
(*                                                                         *)
(* A hook is [name, type, priority, timeout_ms, enabled]; a name is the    *)
(* sequence of its characters.  What a hook's condition and action do in   *)
(* one invocation is the caller's code, so it is chosen per invocation.    *)
(* One session id is modelled; a session without an entry in               *)
(* _session_hooks behaves as one whose lists are all empty.                *)
(***************************************************************************)
MIN_PRIORITY == 0
MAX_PRIORITY == 100
MIN_TIMEOUT_MS == 1
MAX_TIMEOUT_MS == 30000
DEFAULT_TIMEOUT_MS == 5000

MaxHooks == 2   \* hooks registered at one time, over all scopes and types

NameChars ==
    {"a", "b", "c", "d", "e", "f", "g", "h", "i", "j", "k", "l", "m", "n", "o", "p",
     "q", "r", "s", "t", "u", "v", "w", "x", "y", "z", "0", "1", "2", "3", "4", "5",
     "6", "7", "8", "9", "_", "-"}

\* HOOK_NAME_PATTERN = ^[a-z0-9_-]{1,64}$
HookNamePattern(name) ==
    /\ Len(name) >= 1
    /\ Len(name) <= 64
    /\ \A i \in 1..Len(name) : name[i] \in NameChars

HookNames == {<<"a">>, <<"b">>}

\* Hook.validate (the action of every input hook is callable)
Validate(hook) ==
    /\ HookNamePattern(hook.name)
    /\ hook.type \in HookType
    /\ MIN_PRIORITY <= hook.priority /\ hook.priority <= MAX_PRIORITY
    /\ MIN_TIMEOUT_MS <= hook.timeout_ms /\ hook.timeout_ms <= MAX_TIMEOUT_MS

\* list.sort(key=lambda h: h.priority, reverse=True): a stable sort
InsertByPriority(sorted, h) ==
    LET before == {i \in 1..Len(sorted) : sorted[i].priority >= h.priority}
        n == Cardinality(before)
    IN  SubSeq(sorted, 1, n) \o <<h>> \o SubSeq(sorted, n + 1, Len(sorted))

RECURSIVE SortByPriority(_)
SortByPriority(hooks) ==
    IF hooks = <<>> THEN <<>>
    ELSE InsertByPriority(SortByPriority(SubSeq(hooks, 1, Len(hooks) - 1)),
                          hooks[Len(hooks)])

RECURSIVE WithoutName(_, _)
WithoutName(hooks, name) ==
    IF hooks = <<>> THEN <<>>
    ELSE IF hooks[1].name = name THEN WithoutName(Tail(hooks), name)
    ELSE <<hooks[1]>> \o WithoutName(Tail(hooks), name)

RECURSIVE HookCountOver(_, _)
HookCountOver(r, types) ==
    IF types = {} THEN 0
    ELSE LET t == CHOOSE x \in types : TRUE
         IN  Len(r.deployment[t]) + Len(r.session[t]) + HookCountOver(r, types \ {t})

\* get_registered_count, deployment plus session
HookCount(r) == HookCountOver(r, HookType)

ValidHooks ==
    [name : HookNames, type : {"pre_inject", "on_transition"},
     priority : {MIN_PRIORITY, MAX_PRIORITY}, timeout_ms : {DEFAULT_TIMEOUT_MS},
     enabled : BOOLEAN]

BaseHook ==
    [name |-> <<"a">>, type |-> "pre_inject", priority |-> MAX_PRIORITY,
     timeout_ms |-> DEFAULT_TIMEOUT_MS, enabled |-> TRUE]

\* The ways a hook definition can be invalid
HookDefects ==
    {<<"name", <<>>>>, <<"name", <<"A">>>>, <<"type", "bogus">>,
     <<"priority", MIN_PRIORITY - 1>>, <<"priority", MAX_PRIORITY + 1>>,
     <<"timeout_ms", MIN_TIMEOUT_MS - 1>>, <<"timeout_ms", MAX_TIMEOUT_MS + 1>>}

\* The hooks callers register: valid ones, and the base hook with one defect
InputHooks == ValidHooks \cup {[BaseHook EXCEPT ![d[1]] = d[2]] : d \in HookDefects}

\* (scope, session_id) arguments
InputScopes ==
    {<<"deployment", "None">>, <<"session", "s1">>, <<"session", "None">>,
     <<"global", "None">>}

\* HookRegistry.register
RegisterOutcome(r, hook, scope, sid) ==
    IF ~Validate(hook) THEN "HookValidationError"
    ELSE IF scope = "session" /\ sid = "None" THEN "ValueError"
    ELSE IF scope \notin {"deployment", "session"} THEN "ValueError"
    ELSE IF \E i \in 1..Len(r[scope][hook.type]) : r[scope][hook.type][i].name = hook.name
         THEN "DuplicateHookError"
    ELSE "ok"

Registered(r, hook, scope) ==
    [r EXCEPT ![scope][hook.type] = SortByPriority(Append(@, hook))]

Register(hook, scope, sid) ==
    LET out == RegisterOutcome(reg, hook, scope, sid)
    IN  /\ out = "ok" => HookCount(reg) < MaxHooks
        /\ reg' = IF out = "ok" THEN Registered(reg, hook, scope) ELSE reg
        /\ hcall' = [op |-> "register", outcome |-> out]

\* HookRegistry.deregister: the name is removed from the lists of every type
Deregistered(r, name, scope, sid) ==
    IF scope = "deployment" \/ (scope = "session" /\ sid # "None")
    THEN [r EXCEPT ![scope] = [t \in HookType |-> WithoutName(r[scope][t], name)]]
    ELSE r

Deregister(name, scope, sid) ==
    LET r2 == Deregistered(reg, name, scope, sid)
    IN  /\ reg' = r2
        /\ hcall' = [op |-> "deregister", outcome |-> IF r2 # reg THEN "found" ELSE "absent"]

\* HookRegistry.clear_session
ClearSession ==
    /\ reg' = [reg EXCEPT !.session = [t \in HookType |-> <<>>]]
    /\ hcall' = [op |-> "clear_session", outcome |-> "ok"]

\* Merge in which a session hook goes first at equal priority
MergeSessionFirst(deployment, session) ==
    LET RECURSIVE M(_, _)
        M(d, e) ==
            IF d = <<>> THEN e
            ELSE IF e = <<>> THEN d
            ELSE IF d[1].priority > e[1].priority THEN <<d[1]>> \o M(Tail(d), e)
            ELSE <<e[1]>> \o M(d, Tail(e))
    IN  M(deployment, session)

\* HookRegistry._merge_by_priority
MergeByPriority(deployment, session) ==
    LET RECURSIVE M(_, _)
        M(d, e) ==
            IF d = <<>> THEN e
            ELSE IF e = <<>> THEN d
            ELSE IF d[1].priority >= e[1].priority THEN <<d[1]>> \o M(Tail(d), e)
            ELSE <<e[1]>> \o M(d, Tail(e))
    IN  M(deployment, session)

\* Each hook with the scope it is registered in (kept for the properties only)
Scoped(hooks, scope) ==
    [i \in 1..Len(hooks) |->
        [name |-> hooks[i].name, type |-> hooks[i].type, priority |-> hooks[i].priority,
         timeout_ms |-> hooks[i].timeout_ms, enabled |-> hooks[i].enabled,
         scope |-> scope]]

\* HookRegistry.get_chain
GetChain(r, type) ==
    MergeByPriority(Scoped(r.deployment[type], "deployment"),
                    Scoped(r.session[type], "session"))

\* What a hook does in one invocation: its condition is false or raises, or
\* its action returns continue / abort / modify / None, raises, or is still
\* running at the deadline
Behaviours ==
    {"predicate_false", "predicate_error", "continue", "abort", "modify", "none",
     "raise", "timeout"}

\* _execute_with_timeout and the except clauses around it: the HookResult
\* status the chain goes on with
ResultStatusOf(did) ==
    CASE did = "abort" -> "abort"
      [] did = "modify" -> "modify"
      [] OTHER -> "continue"

\* Only the except Exception clause adds to errors
IsException(did) == did = "raise"

\* errors += 1 in the except _HookTimeoutError and except Exception clauses
IsError(did) == did \in {"raise", "timeout"}

\* A status that never ends the chain
NeverHalts(status) == FALSE

\* if result.status == ResultStatus.ABORT: return ChainResult(status="aborted", ...)
HaltsChain(status) == status = "abort"

NoHook == <<"-">>

\* A cascade detection that also trips at exactly half
CascadeAtHalf(errors, executed) == executed > 0 /\ 2 * errors >= executed

\* "Cascading failure detection": executed > 0 and errors / executed > 0.5
CascadeFailure(errors, executed) == executed > 0 /\ 2 * errors > executed

\* The for loop of HookExecutor.execute from position i on; acc carries
\* results, current_context, current_constitution, errors and executed
RECURSIVE RunFrom(_, _, _, _)
RunFrom(chain, beh, i, acc) ==
    IF i > Len(chain)
    THEN [status |-> "completed", aborted_by |-> NoHook, trace |-> acc.trace,
          context |-> acc.context, constitution |-> acc.constitution,
          cascade_failure |-> CascadeFailure(acc.errors, acc.executed),
          errors |-> acc.errors, executed |-> acc.executed,
          predicate_errors |-> acc.predicate_errors]
    ELSE IF ~chain[i].enabled \/ beh[i] = "predicate_false"
    THEN RunFrom(chain, beh, i + 1, acc)
    ELSE IF beh[i] = "predicate_error"
    THEN RunFrom(chain, beh, i + 1, [acc EXCEPT !.predicate_errors = @ + 1])
    ELSE LET status == ResultStatusOf(beh[i])
             trace2 == Append(acc.trace, [idx |-> i, did |-> beh[i], status |-> status])
         IN  IF HaltsChain(status)
             THEN [status |-> "aborted", aborted_by |-> chain[i].name, trace |-> trace2,
                   context |-> acc.context, constitution |-> acc.constitution,
                   cascade_failure |-> FALSE,
                   errors |-> acc.errors, executed |-> acc.executed + 1,
                   predicate_errors |-> acc.predicate_errors]
             ELSE RunFrom(chain, beh, i + 1,
                    [trace |-> trace2,
                     context |-> IF status = "modify" THEN "modified" ELSE acc.context,
                     constitution |-> IF status = "modify" THEN "modified"
                                      ELSE acc.constitution,
                     errors |-> acc.errors + (IF IsError(beh[i]) THEN 1 ELSE 0),
                     executed |-> acc.executed + 1,
                     predicate_errors |-> acc.predicate_errors])

\* HookExecutor.execute
RunChain(chain, beh) ==
    RunFrom(chain, beh, 1,
            [trace |-> <<>>, context |-> "original", constitution |-> "original",
             errors |-> 0, executed |-> 0, predicate_errors |-> 0])

Execute(type, chain, beh) ==
    LET r == RunChain(chain, beh)
    IN  /\ hcall' = [op |-> "execute", type |-> type, status |-> r.status,
                     aborted_by |-> r.aborted_by, trace |-> r.trace,
                     context |-> r.context, constitution |-> r.constitution,
                     cascade_failure |-> r.cascade_failure,
                     errors |-> r.errors, executed |-> r.executed,
                     predicate_errors |-> r.predicate_errors]
        /\ UNCHANGED reg

HReturn ==
    /\ hcall # Idle
    /\ hcall' = Idle
    /\ UNCHANGED reg

HookRestInit ==
    /\ cfg = FullConfig
    /\ InitOrch
    /\ thr = InitThreads
    /\ ex = Idle /\ trk = Idle /\ comp = Idle
    /\ LaterInit

InitHooks == reg = NewRegistry /\ hcall = Idle /\ HookRestInit

NextHooks ==
    \/ /\ hcall = Idle
       /\ \E hook \in InputHooks, sc \in InputScopes : Register(hook, sc[1], sc[2])
       /\ UNCHANGED hookRest
    \/ /\ hcall = Idle
       /\ \E name \in HookNames, sc \in InputScopes : Deregister(name, sc[1], sc[2])
       /\ UNCHANGED hookRest
    \/ /\ hcall = Idle
       /\ ClearSession
       /\ UNCHANGED hookRest
    \/ /\ hcall = Idle
       /\ \E type \in {"pre_inject", "on_transition"} :
            LET chain == GetChain(reg, type)
            IN  \E beh \in [1..Len(chain) -> Behaviours] : Execute(type, chain, beh)
       /\ UNCHANGED hookRest
    \/ HReturn /\ UNCHANGED hookRest

SpecHooks == InitHooks /\ [][NextHooks]_vars

(***************************************************************************)
(* Properties of the hook chain                                            *)
(***************************************************************************)
Executed == hcall # Idle /\ hcall.op = "execute"

\* The hook invoked k-th in the execute call that just returned
InvokedHook(k) == GetChain(reg, hcall.type)[hcall.trace[k].idx]

\* C5: in any chain execution, after any sequence of register / deregister /
\* clear_session operations, the hooks are invoked in descending order of
\* priority, and where two invoked hooks have equal priority a
\* deployment-scoped one is invoked before a session-scoped one.
C5_HookOrdering ==
    Executed =>
        \A i, j \in 1..Len(hcall.trace) :
            i < j =>
                /\ InvokedHook(i).priority >= InvokedHook(j).priority
                /\ InvokedHook(i).priority = InvokedHook(j).priority
                   => ~(InvokedHook(i).scope = "session"
                        /\ InvokedHook(j).scope = "deployment")

\* C5 witness: a chain execution that invoked a deployment hook and then a
\* session hook of the same priority
C5_Witness ==
    /\ Executed
    /\ Len(hcall.trace) = 2
    /\ InvokedHook(1).priority = InvokedHook(2).priority
    /\ InvokedHook(1).scope = "deployment"
    /\ InvokedHook(2).scope = "session"

\* (type, position) of every hook registered in a scope
Slots(r, scope) == {s \in HookType \X (1..MaxHooks) : s[2] <= Len(r[scope][s[1]])}

\* C18: no two hooks registered in the same scope (deployment, or the
\* session) have the same name.
C18_NamesUniqueInScope ==
    \A scope \in {"deployment", "session"} :
        \A s1 \in Slots(reg, scope) : \A s2 \in Slots(reg, scope) :
            s1 # s2 => reg[scope][s1[1]][s1[2]].name # reg[scope][s2[1]][s2[2]].name

\* C6: if an invoked hook H returns abort, no hook ordered after H in the
\* chain is invoked, and execute returns status "aborted" with aborted_by
\* equal to H's name.
C6_AbortShortCircuits ==
    Executed =>
        \A i \in 1..Len(hcall.trace) :
            hcall.trace[i].did = "abort" =>
                /\ \A j \in 1..Len(hcall.trace) : hcall.trace[j].idx <= hcall.trace[i].idx
                /\ hcall.status = "aborted"
                /\ hcall.aborted_by = InvokedHook(i).name

\* C6 witness: the first hook of a chain aborted while an enabled hook was
\* ordered after it
C6_Witness ==
    /\ Executed
    /\ hcall.status = "aborted"
    /\ Len(hcall.trace) = 1
    /\ hcall.trace[1].idx = 1
    /\ Len(GetChain(reg, hcall.type)) = 2
    /\ GetChain(reg, hcall.type)[2].enabled

\* The hooks of the last execute call that timed out or raised
FailedInvocations == {i \in 1..Len(hcall.trace) : hcall.trace[i].did \in {"raise", "timeout"}}

\* C30: after a chain ran to completion, cascade_failure is true exactly
\* when at least one hook was executed and more than half of the executed
\* hooks timed out or raised.
C30_CascadeOverHalf ==
    (Executed /\ hcall.status = "completed") =>
        (hcall.cascade_failure <=>
            (Len(hcall.trace) > 0
             /\ 2 * Cardinality(FailedInvocations) > Len(hcall.trace)))

\* C30 witness: a completed chain of two executed hooks of which one failed
C30_Witness ==
    /\ Executed
    /\ hcall.status = "completed"
    /\ Len(hcall.trace) = 2
    /\ Cardinality(FailedInvocations) = 1
    /\ ~hcall.cascade_failure

\* The original reading of C31: a timeout, an action exception and a
\* predicate error are each recovered as continue and each add to the errors
\* that cascade detection counts.
C31_EveryFailureCounted ==
    Executed =>
        hcall.errors = Cardinality(FailedInvocations) + hcall.predicate_errors

\* C31: a timeout and an action exception are each recovered as continue and
\* add to the errors and to the executed hooks that cascade detection
\* counts; a hook whose predicate raised is skipped and adds to neither.
C31_ActionFailuresCounted ==
    Executed =>
        /\ hcall.errors = Cardinality(FailedInvocations)
        /\ hcall.executed = Len(hcall.trace)
        /\ \A i \in 1..Len(hcall.trace) :
               /\ hcall.trace[i].did # "predicate_error"
               /\ i \in FailedInvocations => hcall.trace[i].status = "continue"

\* C31 witness: a completed chain in which one hook's predicate raised and
\* another hook timed out
C31_Witness ==
    /\ Executed
    /\ hcall.status = "completed"
    /\ hcall.predicate_errors = 1
    /\ \E i \in FailedInvocations : hcall.trace[i].did = "timeout"

(***************************************************************************)
(* One HookExecutor.execute run followed hook by hook.                     *)
(*                                                                         *)
(* _execute_with_timeout runs the action in a daemon thread and joins it   *)
(* with the hook's timeout.  A thread still alive at the deadline is left  *)
(* running: it holds the HookInput it was given, i.e. references to the    *)
(* chain_state dict of this run and to the context and constitution        *)
(* objects current at its invocation.  Objects are named by the hook that  *)
(* returned them (0: the one passed to execute).                           *)
(***************************************************************************)
ChainLen == 2   \* enabled hooks in the chain of the run

\* What an action does before its deadline
TimedBehaviours == {"continue", "modify", "abort", "raise", "timeout"}

\* What an abandoned action may still do to the objects of its HookInput
LateWrites == {"chain_state", "context", "constitution"}

NewRun ==
    [pc |-> "running", i |-> 1, context |-> 0, constitution |-> 0,
     chain_state |-> {}, writes |-> {}, alive |-> {}, inputs |-> <<>>,
     status |-> "none"]

\* execute up to the for loop (the chain is not empty)
TStart ==
    /\ ex = Idle
    /\ ex' = NewRun

\* HookInput(context=current_context, constitution=current_constitution, ...,
\* chain_state=chain_state), with the contents the objects have at hand-over
HookInputOf(run) ==
    [hook |-> run.i, context |-> run.context, constitution |-> run.constitution,
     chain_state |-> run.chain_state,
     written |-> {w \in run.writes :
                    \/ w.what = "context" /\ w.obj = run.context
                    \/ w.what = "constitution" /\ w.obj = run.constitution}]

\* One iteration of the for loop: the action of hook i runs in its thread,
\* writes to chain_state or not, and returns, raises or is still alive when
\* join times out
TInvoke(did, writesState) ==
    LET i == ex.i
        input == HookInputOf(ex)
        state2 == IF writesState
                  THEN ex.chain_state \cup {[by |-> i, late |-> FALSE]}
                  ELSE ex.chain_state
        base == [ex EXCEPT !.inputs = Append(@, input), !.chain_state = state2]
    IN  /\ ex # Idle
        /\ ex.pc = "running"
        /\ i <= ChainLen
        /\ ex' = CASE did = "abort" ->
                        [base EXCEPT !.pc = "done", !.status = "aborted"]
                   [] did = "modify" ->
                        [base EXCEPT !.i = i + 1, !.context = i, !.constitution = i]
                   [] did = "timeout" ->
                        [base EXCEPT !.i = i + 1,
                                     !.alive = @ \cup {[hook |-> i,
                                                        context |-> ex.context,
                                                        constitution |-> ex.constitution]}]
                   [] OTHER -> [base EXCEPT !.i = i + 1]

\* The loop is over: return ChainResult(status="completed", ...)
TComplete ==
    /\ ex # Idle
    /\ ex.pc = "running"
    /\ ex.i > ChainLen
    /\ ex' = [ex EXCEPT !.pc = "done", !.status = "completed"]

\* An abandoned thread goes on running hook.action(hook_input): it writes to
\* an object of its input
TLateWrite(task, what) ==
    /\ ex # Idle
    /\ task \in ex.alive
    /\ ex' = IF what = "chain_state"
             THEN [ex EXCEPT !.chain_state = @ \cup {[by |-> task.hook, late |-> TRUE]}]
             ELSE [ex EXCEPT !.writes = @ \cup {[what |-> what, obj |-> task[what],
                                                 by |-> task.hook, late |-> TRUE]}]

\* An abandoned thread ends; its return value goes to result_container only
TLateEnd(task) ==
    /\ ex # Idle
    /\ task \in ex.alive
    /\ ex' = [ex EXCEPT !.alive = @ \ {task}]

\* The caller drops the ChainResult
TReturn ==
    /\ ex # Idle
    /\ ex.pc = "done"
    /\ ex' = Idle

ExecRestInit ==
    /\ cfg = FullConfig
    /\ InitOrch
    /\ thr = InitThreads
    /\ reg = NewRegistry /\ hcall = Idle /\ trk = Idle /\ comp = Idle
    /\ LaterInit

InitTimeout == ex = Idle /\ ExecRestInit

NextTimeout ==
    \/ TStart /\ UNCHANGED execRest
    \/ (\E did \in TimedBehaviours, w \in BOOLEAN : TInvoke(did, w)) /\ UNCHANGED execRest
    \/ TComplete /\ UNCHANGED execRest
    \/ (\E task \in (IF ex = Idle THEN {} ELSE ex.alive), what \in LateWrites :
            TLateWrite(task, what)) /\ UNCHANGED execRest
    \/ (\E task \in (IF ex = Idle THEN {} ELSE ex.alive) : TLateEnd(task))
       /\ UNCHANGED execRest
    \/ TReturn /\ UNCHANGED execRest

SpecTimeout == InitTimeout /\ [][NextTimeout]_vars

\* C4: once the executor has abandoned a hook's action at its deadline, the
\* abandoned task does not mutate the pipeline state: nothing it writes
\* after abandonment is in the chain_state, context or constitution a later
\* hook receives, nor in the context or constitution the ChainResult
\* returns.
C4_AbandonedTaskIsolated ==
    ex # Idle =>
        /\ \A k \in 1..Len(ex.inputs) :
            /\ \A e \in ex.inputs[k].chain_state : ~e.late
            /\ \A w \in ex.inputs[k].written : ~w.late
        /\ ex.pc = "done" =>
            \A w \in ex.writes :
                w.late => ~(\/ w.what = "context" /\ w.obj = ex.context
                            \/ w.what = "constitution" /\ w.obj = ex.constitution)

(***************************************************************************)
(* StateTracker.                                                           *)
(*                                                                         *)
(* A context gives each dimension a value; a history entry is the context  *)
(* recorded (its timestamp is left out).  At most one handler is           *)
(* registered per severity, and handlers do not raise.                     *)
(***************************************************************************)
MaxHistory == 2   \* the largest max_history a tracker is constructed with

TransitionSeverity == {"none", "minor", "major", "emergency"}

Dimension == {"time", "space", "company", "occasion"}
MAJOR_DIMENSIONS == {"occasion", "agency", "constraints"}
EMERGENCY_VALUES == {"emergency_sign", "warning_sign", "sos_sign"}

BaseContext ==
    [time |-> "morning", space |-> "home", company |-> "alone", occasion |-> "normal"]

\* The contexts recorded: the base one, ones differing from it in one, two
\* and three dimensions or in a major dimension, and ones carrying an
\* emergency value
Contexts ==
    {BaseContext,
     [BaseContext EXCEPT !.time = "evening"],
     [BaseContext EXCEPT !.time = "evening", !.space = "office"],
     [BaseContext EXCEPT !.time = "evening", !.space = "office", !.company = "family"],
     [BaseContext EXCEPT !.occasion = "celebration"],
     [BaseContext EXCEPT !.occasion = "emergency_sign"],
     [BaseContext EXCEPT !.space = "warning_sign"]}

\* _detect_transition with the emergency values looked for in the changed
\* dimensions only and a major transition from four changed dimensions on
DetectTransitionOfChanges(previous, current) ==
    LET changed == {d \in Dimension : previous[d] # current[d]}
        values == {current[d] : d \in changed}
    IN  [severity |->
            IF values \cap EMERGENCY_VALUES # {} THEN "emergency"
            ELSE IF changed \cap MAJOR_DIMENSIONS # {} \/ Cardinality(changed) > 3
                 THEN "major"
            ELSE IF changed # {} THEN "minor"
            ELSE "none",
         changed_dimensions |-> changed]

\* StateTracker._detect_transition
DetectTransition(previous, current) ==
    LET changed == {d \in Dimension : previous[d] # current[d]}
        values == {current[d] : d \in Dimension}
    IN  [severity |->
            IF values \cap EMERGENCY_VALUES # {} THEN "emergency"
            ELSE IF changed \cap MAJOR_DIMENSIONS # {} \/ Cardinality(changed) >= 3
                 THEN "major"
            ELSE IF changed # {} THEN "minor"
            ELSE "none",
         changed_dimensions |-> changed]

\* self._history[-self._max_history:] when the history is too long
Trim(history, max) ==
    IF Len(history) > max
    THEN SubSeq(history, Len(history) - max + 1, Len(history))
    ELSE history

\* self._history.pop()
Pop(history) == SubSeq(history, 1, Len(history) - 1)

\* What self._hook_executor.execute(ON_TRANSITION, ...) does in a record call
HookOutcomes == {"completed", "aborted", "raised"}

\* StateTracker.record; hook is what the on_transition chain does if fired
RecordResult(t, context, hook) ==
    IF t.history = <<>>
    THEN [history |-> <<context>>, ret |-> "None", severity |-> "none",
          hook |-> "not_fired", handled |-> FALSE]
    ELSE LET tr == DetectTransition(t.history[Len(t.history)], context)
             h2 == Trim(Append(t.history, context), t.max_history)
             fired == tr.severity # "none" /\ t.has_executor
         IN  IF fired /\ hook = "aborted"
             THEN [history |-> Pop(h2), ret |-> "None", severity |-> tr.severity,
                   hook |-> hook, handled |-> FALSE]
             ELSE [history |-> h2, ret |-> "transition", severity |-> tr.severity,
                   hook |-> IF fired THEN hook ELSE "not_fired",
                   handled |-> (tr.severity # "none" /\ tr.severity \in t.handlers)]

TrackerRecord(context, hook) ==
    LET r == RecordResult(trk, context, hook)
    IN  trk' = [trk EXCEPT !.history = r.history,
                           !.newest = IF r.hook = "aborted" THEN @
                                      ELSE Trim(Append(@, context), trk.max_history),
                           !.last = [op |-> "record", context |-> context,
                                     before |-> trk.history, ret |-> r.ret,
                                     severity |-> r.severity, hook |-> r.hook,
                                     handled |-> r.handled]]

\* StateTracker.register_handler / unregister_handler
RegisterHandler(severity) ==
    /\ severity \notin trk.handlers
    /\ trk' = [trk EXCEPT !.handlers = @ \cup {severity}]

UnregisterHandler(severity) ==
    /\ severity \in trk.handlers
    /\ trk' = [trk EXCEPT !.handlers = @ \ {severity}]

TrackerReturn ==
    /\ trk.last # Idle
    /\ trk' = [trk EXCEPT !.last = Idle]

TrackerRestInit ==
    /\ cfg = FullConfig
    /\ InitOrch
    /\ thr = InitThreads
    /\ reg = NewRegistry /\ hcall = Idle /\ ex = Idle /\ comp = Idle
    /\ LaterInit

\* StateTracker.__init__
InitTracker ==
    /\ trk \in [max_history : 1..MaxHistory, has_executor : BOOLEAN,
                history : {<<>>}, newest : {<<>>}, handlers : {{}}, last : {Idle}]
    /\ TrackerRestInit

NextTracker ==
    \/ /\ trk.last = Idle
       /\ \E context \in Contexts, hook \in HookOutcomes : TrackerRecord(context, hook)
       /\ UNCHANGED trackerRest
    \/ /\ trk.last = Idle
       /\ \E severity \in TransitionSeverity : RegisterHandler(severity)
       /\ UNCHANGED trackerRest
    \/ /\ trk.last = Idle
       /\ \E severity \in TransitionSeverity : UnregisterHandler(severity)
       /\ UNCHANGED trackerRest
    \/ TrackerReturn /\ UNCHANGED trackerRest

SpecTracker == InitTracker /\ [][NextTracker]_vars

\* C7: if the on_transition hook chain aborts during StateTracker.record,
\* the record is rolled back: the newly appended record is removed from the
\* history, which is as it was before the call (history_count included),
\* and record returns None.
C7_AbortRollsBack ==
    (trk.last # Idle /\ trk.last.hook = "aborted") =>
        /\ trk.history = trk.last.before
        /\ Len(trk.history) = Len(trk.last.before)
        /\ trk.last.ret = "None"

\* C34: after any sequence of record calls the history holds at most
\* max_history records and is the most recent min(n, max_history) of the n
\* contexts accepted (recorded and not rolled back), oldest first.
C34_HistoryKeepsNewest ==
    /\ Len(trk.history) <= trk.max_history
    /\ trk.history = trk.newest

\* A record call on a tracker that already held a context has detected a
\* transition
Detected == trk.last # Idle /\ trk.last.op = "record" /\ trk.last.before # <<>>

\* The dimensions in which the context of the last record call differs from
\* the context recorded before it
ChangedByLast ==
    LET previous == trk.last.before[Len(trk.last.before)]
    IN  {d \in Dimension : previous[d] # trk.last.context[d]}

\* C25: the severity of a detected transition is emergency exactly when the
\* current context holds an emergency value; otherwise it is major when a
\* changed dimension is a major dimension or three or more dimensions
\* changed, minor when any dimension changed, and none when none did.
C25_SeverityLadder ==
    Detected =>
        LET alarm == \E d \in Dimension : trk.last.context[d] \in EMERGENCY_VALUES
            key == \E d \in ChangedByLast : d \in MAJOR_DIMENSIONS
            n == Cardinality(ChangedByLast)
        IN  /\ trk.last.severity = "emergency" <=> alarm
            /\ trk.last.severity = "major" <=> (~alarm /\ (key \/ n >= 3))
            /\ trk.last.severity = "minor" <=> (~alarm /\ ~key /\ n \in {1, 2})
            /\ trk.last.severity = "none" <=> (~alarm /\ n = 0)

\* A major transition by three changed dimensions, none of them major
C25_Witness ==
    /\ Detected
    /\ trk.last.severity = "major"
    /\ ChangedByLast \cap MAJOR_DIMENSIONS = {}

(***************************************************************************)
(* Composer in override mode.                                              *)
(*                                                                         *)
(* A rule is the sequence of its whitespace-separated words, as written;   *)
(* the rule's string is the words joined by single spaces.                 *)
(***************************************************************************)
MaxRules == 2           \* rules per constitution
MaxConstitutions == 2   \* constitutions per compose call

\* str.lower() on the words of the vocabulary
Lower(word) ==
    CASE word = "Always" -> "always"
      [] word = "Never" -> "never"
      [] word = "Must" -> "must"
      [] OTHER -> word

LowerRule(rule) == [i \in 1..Len(rule) |-> Lower(rule[i])]

\* Vocabulary words that have a shorter keyword at their start
ProperPrefixes == {<<"allow", "allowed">>}

StartsWith(word, part) == word = part \/ <<part, word>> \in ProperPrefixes

\* No word of the vocabulary has a keyword in its middle or at its end only
Contains(word, part) == StartsWith(word, part)
EndsWith(word, part) == word = part

\* phrase in text, for a phrase of one or two words
PhraseIn(phrase, text) ==
    IF Len(phrase) = 1
    THEN \E i \in 1..Len(text) : Contains(text[i], phrase[1])
    ELSE \E i \in 1..(Len(text) - 1) :
            EndsWith(text[i], phrase[1]) /\ StartsWith(text[i + 1], phrase[2])

\* CONFLICT_KEYWORDS as (keyword, opposite) pairs
CONFLICT_KEYWORDS ==
    {<<<<"always">>, <<"never">>>>, <<<<"never">>, <<"always">>>>,
     <<<<"must">>, <<"must", "not">>>>, <<<<"must">>, <<"should", "not">>>>,
     <<<<"must">>, <<"never">>>>,
     <<<<"must", "not">>, <<"must">>>>, <<<<"must", "not">>, <<"always">>>>,
     <<<<"allow">>, <<"forbid">>>>, <<<<"allow">>, <<"prohibit">>>>,
     <<<<"allow">>, <<"deny">>>>,
     <<<<"forbid">>, <<"allow">>>>, <<<<"forbid">>, <<"permit">>>>,
     <<<<"prohibit">>, <<"allow">>>>, <<<<"prohibit">>, <<"permit">>>>,
     <<<<"require">>, <<"forbid">>>>, <<<<"require">>, <<"prohibit">>>>}

CommonWords ==
    {"the", "a", "an", "is", "are", "be", "to", "of", "and", "or", "in", "on", "at",
     "for", "with", "by", "from", "as", "it", "this", "that", "these", "those",
     "you", "we", "they", "i"}

Words(text) == {text[i] : i \in 1..Len(text)}

\* Composer._same_topic, on lower-cased rules
SameTopic(a, b) ==
    Cardinality((Words(a) \ CommonWords) \cap (Words(b) \ CommonWords)) >= 2

\* Composer._rules_conflict
RulesConflict(rule_a, rule_b) ==
    LET a == LowerRule(rule_a)
        b == LowerRule(rule_b)
    IN  \E kw \in CONFLICT_KEYWORDS :
            PhraseIn(kw[1], a) /\ PhraseIn(kw[2], b) /\ SameTopic(a, b)

\* The rules constitutions are written with; <<>> is a blank rule
InputRules ==
    {<<"Always", "use", "formal", "language">>,
     <<"never", "use", "formal", "language">>,
     <<"must", "use", "formal", "language">>,
     <<"allowed", "topics", "the", "weather">>,
     <<"forbid", "the", "weather", "topics">>,
     <<>>}

RECURSIVE SeqsUpTo(_, _)
SeqsUpTo(S, n) ==
    IF n = 0 THEN {<<>>}
    ELSE LET shorter == SeqsUpTo(S, n - 1)
         IN  shorter \cup {Append(q, x) : q \in shorter, x \in S}

\* Constitution.__post_init__: blank rules are dropped
RECURSIVE Normalize(_)
Normalize(rules) ==
    IF rules = <<>> THEN <<>>
    ELSE IF rules[1] = <<>> THEN Normalize(Tail(rules))
    ELSE <<rules[1]>> \o Normalize(Tail(rules))

\* Constitution(id, rules); the id is the position in the compose call
MkConstitutions(raw) == [c \in 1..Len(raw) |-> [id |-> c, rules |-> Normalize(raw[c])]]

InputConstitutions == SeqsUpTo(SeqsUpTo(InputRules, MaxRules), MaxConstitutions)

\* merged with the entries at the given indices popped
RECURSIVE PopAll(_, _, _)
PopAll(merged, indices, i) ==
    IF i > Len(merged) THEN <<>>
    ELSE (IF i \in indices THEN <<>> ELSE <<merged[i]>>) \o PopAll(merged, indices, i + 1)

\* The warnings of one rule, in the order of the entries it overrides
RECURSIVE WarningsFor(_, _, _, _)
WarningsFor(merged, indices, by, i) ==
    IF i > Len(merged) THEN <<>>
    ELSE (IF i \in indices
          THEN <<[rule |-> by.rule, const |-> by.c, overrides |-> merged[i].rule]>>
          ELSE <<>>) \o WarningsFor(merged, indices, by, i + 1)

\* The body of the inner loop of _compose_override for one rule; an entry of
\* merged is the rule with the constitution and position it came from
AddRule(acc, entry) ==
    LET conflicting == {i \in 1..Len(acc.merged) :
                            RulesConflict(acc.merged[i].rule, entry.rule)}
    IN  [merged |-> Append(PopAll(acc.merged, conflicting, 1), entry),
         warnings |-> acc.warnings \o WarningsFor(acc.merged, conflicting, entry, 1),
         overridden |-> acc.overridden
                        \cup {[c |-> acc.merged[i].c, k |-> acc.merged[i].k] :
                                i \in conflicting}]

\* Composer._compose_override from rule k of constitution c on
RECURSIVE OverrideFrom(_, _, _, _)
OverrideFrom(consts, c, k, acc) ==
    IF c > Len(consts) THEN acc
    ELSE IF k > Len(consts[c].rules) THEN OverrideFrom(consts, c + 1, 1, acc)
    ELSE OverrideFrom(consts, c, k + 1,
                      AddRule(acc, [c |-> c, k |-> k, rule |-> consts[c].rules[k]]))

ComposeOverride(consts) ==
    OverrideFrom(consts, 1, 1, [merged |-> <<>>, warnings |-> <<>>, overridden |-> {}])

\* Composer.compose(constitutions, CompositionMode.OVERRIDE)
Compose(raw) ==
    LET consts == MkConstitutions(raw)
        r == ComposeOverride(consts)
    IN  comp' = [constitutions |-> consts, merged |-> r.merged,
                 warnings |-> r.warnings, overridden |-> r.overridden]

ComposeReturn ==
    /\ comp # Idle
    /\ comp' = Idle

ComposeRestInit ==
    /\ cfg = FullConfig
    /\ InitOrch
    /\ thr = InitThreads
    /\ reg = NewRegistry /\ hcall = Idle /\ ex = Idle /\ trk = Idle
    /\ LaterInit

InitCompose == comp = Idle /\ ComposeRestInit

NextCompose ==
    \/ /\ comp = Idle
       /\ \E raw \in InputConstitutions : Compose(raw)
       /\ UNCHANGED composeRest
    \/ ComposeReturn /\ UNCHANGED composeRest

SpecCompose == InitCompose /\ [][NextCompose]_vars

\* CompositionResult.merged_rules
MergedRules == {comp.merged[i].rule : i \in 1..Len(comp.merged)}

\* C8: in override mode every rule of every constitution is in the final
\* merged_rules unless a rule of a strictly later constitution supersedes
\* (conflicts with) it, and an overridden entry is not in the result again.
C8_OverrideMonotone ==
    comp # Idle =>
        /\ \A c \in 1..Len(comp.constitutions) :
            \A k \in 1..Len(comp.constitutions[c].rules) :
                \/ comp.constitutions[c].rules[k] \in MergedRules
                \/ \E c2 \in (c + 1)..Len(comp.constitutions) :
                     \E k2 \in 1..Len(comp.constitutions[c2].rules) :
                        RulesConflict(comp.constitutions[c].rules[k],
                                      comp.constitutions[c2].rules[k2])
        /\ \A i \in 1..Len(comp.merged) :
            [c |-> comp.merged[i].c, k |-> comp.merged[i].k] \notin comp.overridden

(***************************************************************************)
(* RevocationChecker (revocation.py).  One bundle id is checked, so a      *)
(* cache key is the URI; a URI is described by what urlparse and           *)
(* getaddrinfo make of it.                                                 *)
(***************************************************************************)
MaxMono == 2        \* time.monotonic() runs over 0..MaxMono
CacheTtl == 1       \* cache_ttl, in clock ticks

NoUri == [id |-> "none", scheme |-> "", hostname |-> FALSE, port_ok |-> FALSE,
          resolves |-> FALSE, addrs |-> {}]

PublicUri == [id |-> "pub", scheme |-> "https", hostname |-> TRUE, port_ok |-> TRUE,
              resolves |-> TRUE, addrs |-> {"public"}]

\* The revocation URIs a manifest may carry
RevocationUris ==
    {PublicUri,
     [PublicUri EXCEPT !.id = "mixed", !.addrs = {"public", "private"}],
     [PublicUri EXCEPT !.id = "priv", !.addrs = {"private"}],
     [PublicUri EXCEPT !.id = "file", !.scheme = "file", !.hostname = FALSE],
     [PublicUri EXCEPT !.id = "port", !.port_ok = FALSE],
     [PublicUri EXCEPT !.id = "nodns", !.resolves = FALSE, !.addrs = {}]}

\* manifest.revocation: None, or a dict with check_uri and / or crl_uri
Manifests ==
    {[has_revocation |-> FALSE, check_uri |-> NoUri, crl_uri |-> NoUri]}
    \cup [has_revocation : {TRUE}, check_uri : RevocationUris \cup {NoUri},
          crl_uri : RevocationUris \cup {NoUri}]

\* A guard that lets every URI through
ValidateNothing(u) == TRUE

\* validate_uri
ValidateUri(u) ==
    IF u.scheme \notin {"http", "https"} THEN FALSE
    ELSE IF ~u.hostname THEN FALSE
    ELSE IF ~u.port_ok THEN FALSE
    ELSE IF ~u.resolves THEN FALSE
    ELSE IF u.addrs = {} THEN FALSE
    ELSE \A a \in u.addrs : a # "private"

\* What urlopen / read / decode / json.loads do in _fetch_json.  The first
\* group ends in the function's except clauses (URLError, JSONDecodeError;
\* TimeoutError behaves as URLError does) or in its own raise statements (a
\* redirect to another host; an oversized body behaves the same).  The second
\* group is an exception of another class raised inside the try block: the
\* connection drops while the response is read (http.client.IncompleteRead,
\* ConnectionResetError); a body that is not UTF-8 (UnicodeDecodeError)
\* behaves the same.
ConvertedFailures == {"url_error", "bad_json", "redirected"}
OtherFailures == {"connection_lost"}

\* An endpoint's behaviour: it answers (hit: the jti is reported revoked /
\* is listed), or the fetch fails.
Endpoints ==
    [kind : {"data"}, hit : BOOLEAN]
    \cup [kind : ConvertedFailures \cup OtherFailures, hit : {FALSE}]

\* _fetch_json: the outcome, and the hosts urlopen connected to
FetchJson(u, e) ==
    [out |-> IF e.kind = "data" THEN "data"
             ELSE IF e.kind \in ConvertedFailures THEN "RevocationError"
             ELSE "Exception",
     hit |-> e.hit,
     sockets |-> IF e.kind = "redirected" THEN {u.id, "redirect_target"} ELSE {u.id}]

\* _get_cached / _get_crl_cached: the entry if it has not expired
Fresh(cache, key, mono) == key \in DOMAIN cache /\ cache[key].expires_at > mono

\* ... an expired entry is deleted by the lookup
DropStale(cache, key, mono) ==
    IF key \in DOMAIN cache /\ ~Fresh(cache, key, mono)
    THEN [k \in DOMAIN cache \ {key} |-> cache[k]]
    ELSE cache

\* _set_cached / _set_crl_cached
SetCached(cache, key, value, mono) ==
    [k \in DOMAIN cache \cup {key} |->
        IF k = key THEN [value |-> value, expires_at |-> mono + CacheTtl] ELSE cache[k]]

\* _check_online and _check_crl: cache lookup, SSRF validation, fetch, cache
\* store.  out is "status" (with revoked), "RevocationError" or "Exception".
Lookup(cache, u, e, mono) ==
    LET c1 == DropStale(cache, u.id, mono)
        f == FetchJson(u, e)
    IN  IF Fresh(cache, u.id, mono)
        THEN [out |-> "status", revoked |-> cache[u.id].value, cache |-> cache,
              sockets |-> {}]
        ELSE IF ~ValidateUri(u)
        THEN [out |-> "RevocationError", revoked |-> FALSE, cache |-> c1, sockets |-> {}]
        ELSE IF f.out # "data"
        THEN [out |-> f.out, revoked |-> FALSE, cache |-> c1, sockets |-> f.sockets]
        ELSE [out |-> "status", revoked |-> f.hit,
              cache |-> SetCached(c1, u.id, f.hit, mono), sockets |-> f.sockets]

CheckOnline(r, u, e) == Lookup(r.cache, u, e, r.mono)
CheckCrl(r, u, e) == Lookup(r.crl_cache, u, e, r.mono)

Skipped == [out |-> "skipped", revoked |-> FALSE, sockets |-> {}]

\* RevocationChecker.check: out is "status" or "Exception" (the call raised)
Check(r, m, online, crl) ==
    LET on == IF m.has_revocation /\ m.check_uri # NoUri
              THEN CheckOnline(r, m.check_uri, online)
              ELSE Skipped @@ [cache |-> r.cache]
        tryCrl == m.has_revocation /\ m.crl_uri # NoUri
                  /\ on.out \in {"skipped", "RevocationError"}
        cr == IF tryCrl THEN CheckCrl(r, m.crl_uri, crl)
              ELSE Skipped @@ [cache |-> r.crl_cache]
    IN  [out |-> IF "Exception" \in {on.out, cr.out} THEN "Exception" ELSE "status",
         revoked |-> IF on.out = "status" THEN on.revoked
                     ELSE cr.out = "status" /\ cr.revoked,
         online |-> on.out, crl |-> cr.out,
         sockets |-> on.sockets \cup cr.sockets,
         cache |-> on.cache, crl_cache |-> cr.cache]

\* Step 6b of Orchestrator.verify on an otherwise valid bundle, with this
\* outcome of revocation_checker.check
VerifyAfterCheck(c) ==
    LET how == IF c.out = "Exception" THEN "error"
               ELSE IF c.revoked THEN "revoked" ELSE "clear"
        b == MkBundle(2, TimestampsOf(2), [ValidFlags EXCEPT !.revocation = how])
    IN  Verify(FullConfig, EmptyCache, 0, 0, b).result

RevCheck ==
    /\ rev.last = Idle
    /\ \E m \in Manifests, online \in Endpoints, crl \in Endpoints :
        LET c == Check(rev, m, online, crl)
        IN  rev' = [rev EXCEPT !.cache = c.cache, !.crl_cache = c.crl_cache,
                        !.last = [manifest |-> m, online_endpoint |-> online,
                                  crl_endpoint |-> crl, crl_before |-> rev.crl_cache,
                                  out |-> c.out, revoked |-> c.revoked,
                                  online |-> c.online, crl |-> c.crl,
                                  sockets |-> c.sockets,
                                  verify |-> VerifyAfterCheck(c)]]

RevReturn ==
    /\ rev.last # Idle
    /\ rev' = [rev EXCEPT !.last = Idle]

RevTick ==
    /\ rev.last = Idle
    /\ rev.mono < MaxMono
    /\ rev' = [rev EXCEPT !.mono = @ + 1]

revRest == <<cfg, now, seen, call, admitted, thr, reg, hcall, ex, trk, comp, rc, rthr, ctrk, lreg, audit>>

LaterInitBut(v) ==
    /\ v = "rev" \/ rev = Idle
    /\ v = "rc" \/ rc = Idle
    /\ v = "rthr" \/ rthr = Idle
    /\ v = "ctrk" \/ ctrk = Idle
    /\ v = "lreg" \/ lreg = Idle
    /\ v = "audit" \/ audit = Idle

\* The earlier subsystems, as constructed
EarlierInit ==
    /\ cfg = FullConfig
    /\ InitOrch
    /\ thr = InitThreads
    /\ reg = NewRegistry /\ hcall = Idle /\ ex = Idle /\ trk = Idle /\ comp = Idle

\* RevocationChecker.__init__
InitRevocation ==
    /\ rev = [mono |-> 0, cache |-> EmptyCache, crl_cache |-> EmptyCache, last |-> Idle]
    /\ EarlierInit
    /\ LaterInitBut("rev")

NextRevocation ==
    \/ RevCheck /\ UNCHANGED revRest
    \/ RevReturn /\ UNCHANGED revRest
    \/ RevTick /\ UNCHANGED revRest

SpecRevocation == InitRevocation /\ [][NextRevocation]_vars

\* The CRL the checker consults for this call lists the jti: the cached list
\* while it is fresh, the fetched one otherwise.
CrlLists(l, mono) ==
    IF Fresh(l.crl_before, l.manifest.crl_uri.id, mono)
    THEN l.crl_before[l.manifest.crl_uri.id].value
    ELSE ValidateUri(l.manifest.crl_uri) /\ l.crl_endpoint.kind = "data"
         /\ l.crl_endpoint.hit

\* The online check of this call was attempted and did not produce a status
OnlineFailed(l) ==
    l.manifest.has_revocation /\ l.manifest.check_uri # NoUri /\ l.online # "status"

\* C12: when the online check fails, for whatever reason, and the manifest
\* has a crl_uri whose list names the jti, check reports the bundle revoked
\* and verify returns REVOKED.
C12_FallbackToCrl ==
    (rev.last # Idle /\ OnlineFailed(rev.last) /\ rev.last.manifest.crl_uri # NoUri
        /\ CrlLists(rev.last, rev.mono)) =>
        (rev.last.out = "status" /\ rev.last.revoked /\ rev.last.verify = "REVOKED")

MaxEntries == 2     \* max_entries given to the constructor ranges over 1..MaxEntries

\* is_seen(jti)
RcIsSeen ==
    \E j \in JTIs :
        LET r == IsSeen(rc.seen, j, rc.now)
        IN  rc' = [rc EXCEPT !.seen = r.seen,
                       !.last = [op |-> "is_seen", jti |-> j, hit |-> r.hit,
                                 removed |-> DOMAIN r.seen # DOMAIN rc.seen]]

\* record(jti, exp); recorded remembers the expiry each jti was last recorded with
RcRecord ==
    \E j \in JTIs, exp \in 0..MaxTime :
        rc' = [rc EXCEPT !.seen = Record(rc.seen, j, exp),
                   !.recorded = [k \in DOMAIN @ \cup {j} |-> IF k = j THEN exp ELSE @[k]],
                   !.last = [op |-> "record", jti |-> j, hit |-> FALSE, removed |-> FALSE]]

RcTick ==
    /\ rc.now < MaxTime
    /\ rc' = [rc EXCEPT !.now = @ + 1, !.last = Idle]

rcRest == <<cfg, now, seen, call, admitted, thr, reg, hcall, ex, trk, comp, rev, rthr, ctrk, lreg, audit>>

\* ReplayCache(max_entries=n)
InitCache ==
    /\ rc \in [max_entries : 1..MaxEntries, seen : {EmptyCache}, now : {0},
               recorded : {EmptyCache}, last : {Idle}]
    /\ EarlierInit
    /\ LaterInitBut("rc")

NextCache ==
    \/ RcIsSeen /\ UNCHANGED rcRest
    \/ RcRecord /\ UNCHANGED rcRest
    \/ RcTick /\ UNCHANGED rcRest

SpecCache == InitCache /\ [][NextCache]_vars

\* C14: the cache never holds more than max_entries entries.
C14_CacheBounded == Cardinality(DOMAIN rc.seen) <= rc.max_entries

\* C15: an is_seen(jti) made no later than the expiry the jti was recorded
\* with returns true, whatever was recorded, looked up and cleaned in between.
C15_RecordedStaysSeen ==
    (rc.last # Idle /\ rc.last.op = "is_seen" /\ rc.last.jti \in DOMAIN rc.recorded
        /\ rc.now <= rc.recorded[rc.last.jti]) => rc.last.hit

\* A jti is found at the very instant of its expiry by a lookup whose cleanup
\* removed another entry.
C15_Witness ==
    /\ rc.last # Idle /\ rc.last.op = "is_seen"
    /\ rc.last.jti \in DOMAIN rc.recorded
    /\ rc.now = rc.recorded[rc.last.jti]
    /\ rc.last.hit /\ rc.last.removed

(***************************************************************************)
(* HookRegistry under concurrent callers.  Every method body runs inside   *)
(* `with self._lock`; a caller is followed statement by statement through  *)
(* it.  Callers use one session, hooks of type pre_inject, and one hook    *)
(* per name.                                                               *)
(***************************************************************************)
CallerHooks ==
    {BaseHook, [BaseHook EXCEPT !.name = <<"b">>, !.priority = MIN_PRIORITY]}

CallerScopes == {"deployment", "session"}

IdleCaller ==
    [pc |-> "idle", hook |-> BaseHook, scope |-> "deployment",
     kept |-> NewRegistry.deployment, d |-> <<>>, s |-> <<>>, chain |-> <<>>, want |-> <<>>]

\* A lock anybody can take at any time
LockNever(owner) == TRUE

\* threading.Lock: acquire blocks while another caller holds it
LockFree(owner) == owner = 0

\* with self._lock: (entry), for one of the four methods
RStart(t) ==
    /\ rthr.th[t].pc = "idle"
    /\ LockFree(rthr.lock)
    /\ \E op \in {"reg_check", "dereg_read", "clear", "copy_dep"},
          h \in CallerHooks, sc \in CallerScopes :
        /\ op \in {"clear", "copy_dep"} => (h = BaseHook /\ sc = "deployment")
        /\ rthr' = [rthr EXCEPT !.lock = t,
                        !.th[t] = [IdleCaller EXCEPT !.pc = op, !.hook = h, !.scope = sc]]
    /\ UNCHANGED reg

\* register: the duplicate test on the target list; DuplicateHookError leaves
\* the with block
RRegCheck(t) ==
    LET c == rthr.th[t]
        dup == RegisterOutcome(reg, c.hook, c.scope, "s1") = "DuplicateHookError"
    IN  /\ c.pc = "reg_check"
        /\ rthr' = IF dup THEN [rthr EXCEPT !.lock = 0, !.th[t] = IdleCaller]
                   ELSE [rthr EXCEPT !.th[t].pc = "reg_append"]
        /\ UNCHANGED reg

\* register: target.append(hook); target.sort(...), and the end of the with block
RRegAppend(t) ==
    LET c == rthr.th[t]
    IN  /\ c.pc = "reg_append"
        /\ reg' = Registered(reg, c.hook, c.scope)
        /\ rthr' = [rthr EXCEPT !.lock = 0, !.th[t] = IdleCaller,
                        !.live = @ \cup {<<c.scope, c.hook.name>>}]

\* deregister: the list comprehensions [h for h in hooks if h.name != name]
RDeregRead(t) ==
    LET c == rthr.th[t]
    IN  /\ c.pc = "dereg_read"
        /\ rthr' = [rthr EXCEPT !.th[t].pc = "dereg_write",
                        !.th[t].kept = Deregistered(reg, c.hook.name, c.scope, "s1")[c.scope]]
        /\ UNCHANGED reg

\* deregister: their assignment to the registry, and the end of the with block
RDeregWrite(t) ==
    LET c == rthr.th[t]
    IN  /\ c.pc = "dereg_write"
        /\ reg' = [reg EXCEPT ![c.scope] = c.kept]
        /\ rthr' = [rthr EXCEPT !.lock = 0, !.th[t] = IdleCaller,
                        !.live = @ \ {<<c.scope, c.hook.name>>}]

\* clear_session: self._session_hooks.pop(session_id, None)
RClear(t) ==
    /\ rthr.th[t].pc = "clear"
    /\ reg' = [reg EXCEPT !.session = [ty \in HookType |-> <<>>]]
    /\ rthr' = [rthr EXCEPT !.lock = 0, !.th[t] = IdleCaller,
                    !.live = {l \in @ : l[1] # "session"}]

\* get_chain: deployment = list(self._deployment_hooks.get(hook_type, []))
RCopyDep(t) ==
    /\ rthr.th[t].pc = "copy_dep"
    /\ rthr' = [rthr EXCEPT !.th[t].pc = "copy_sess",
                    !.th[t].d = Scoped(reg.deployment["pre_inject"], "deployment")]
    /\ UNCHANGED reg

\* get_chain: session = list(...), and the end of the with block; want is the
\* chain of the registry as it is at this instant
RCopySess(t) ==
    /\ rthr.th[t].pc = "copy_sess"
    /\ rthr' = [rthr EXCEPT !.lock = 0, !.th[t].pc = "merge",
                    !.th[t].s = Scoped(reg.session["pre_inject"], "session"),
                    !.th[t].want = GetChain(reg, "pre_inject")]
    /\ UNCHANGED reg

\* get_chain: return self._merge_by_priority(deployment, session)
RMerge(t) ==
    LET c == rthr.th[t]
    IN  /\ c.pc = "merge"
        /\ rthr' = [rthr EXCEPT !.th[t].pc = "done",
                        !.th[t].chain = MergeByPriority(c.d, c.s)]
        /\ UNCHANGED reg

RDone(t) ==
    /\ rthr.th[t].pc = "done"
    /\ rthr' = [rthr EXCEPT !.th[t] = IdleCaller]
    /\ UNCHANGED reg

callersRest == <<cfg, now, seen, call, admitted, thr, hcall, ex, trk, comp, rev, rc, ctrk, lreg, audit>>

InitCallers ==
    /\ rthr = [lock |-> 0, live |-> {}, th |-> [t \in Threads |-> IdleCaller]]
    /\ EarlierInit
    /\ LaterInitBut("rthr")

NextCallers ==
    \/ \E t \in Threads : RStart(t) /\ UNCHANGED callersRest
    \/ \E t \in Threads : RRegCheck(t) /\ UNCHANGED callersRest
    \/ \E t \in Threads : RRegAppend(t) /\ UNCHANGED callersRest
    \/ \E t \in Threads : RDeregRead(t) /\ UNCHANGED callersRest
    \/ \E t \in Threads : RDeregWrite(t) /\ UNCHANGED callersRest
    \/ \E t \in Threads : RClear(t) /\ UNCHANGED callersRest
    \/ \E t \in Threads : RCopyDep(t) /\ UNCHANGED callersRest
    \/ \E t \in Threads : RCopySess(t) /\ UNCHANGED callersRest
    \/ \E t \in Threads : RMerge(t) /\ UNCHANGED callersRest
    \/ \E t \in Threads : RDone(t) /\ UNCHANGED callersRest

SpecCallers == InitCallers /\ [][NextCallers]_vars

\* The (scope, name) pairs the registry holds, with multiplicity
HeldIn(r) ==
    [l \in CallerScopes \X HookNames |->
        Cardinality({i \in 1..Len(r[l[1]]["pre_inject"]) :
                        r[l[1]]["pre_inject"][i].name = l[2]})]

\* C17: with concurrent callers, the registry holds exactly once each hook
\* whose registration took effect and was not removed since, and a chain
\* returned by get_chain is the priority merge of the two lists as they were
\* at one instant.
C17_RegistryConsistent ==
    /\ \A l \in CallerScopes \X HookNames :
        HeldIn(reg)[l] = IF l \in rthr.live THEN 1 ELSE 0
    /\ \A t \in Threads : rthr.th[t].pc = "done" => rthr.th[t].chain = rthr.th[t].want

\* A caller returns a chain of a deployment and a session hook that the
\* registry no longer holds, because another caller changed it meanwhile.
C17_Witness ==
    \E t \in Threads :
        /\ rthr.th[t].pc = "done"
        /\ Len(rthr.th[t].chain) = 2
        /\ rthr.th[t].chain[1].scope # rthr.th[t].chain[2].scope
        /\ GetChain(reg, "pre_inject") # rthr.th[t].chain
        /\ \E u \in Threads : u # t /\ rthr.th[u].pc = "copy_sess"

(***************************************************************************)
(* StateTracker.record under concurrent callers (no hook executor, no      *)
(* handlers).  The class has no lock; a caller is followed statement by    *)
(* statement.  An entry carries the number of the append that put it into  *)
(* the history, so that entries with equal contexts can be told apart.     *)
(***************************************************************************)
MaxRecords == 3     \* record calls made on the tracker

IdleRecorder == [pc |-> "idle", context |-> BaseContext, previous |-> 0, current |-> 0,
                 slice |-> <<>>]

\* now = datetime.utcnow(); if not self._history:
RecStart(t) ==
    /\ ctrk.th[t].pc = "idle"
    /\ ctrk.started < MaxRecords
    /\ \E c \in Contexts :
        ctrk' = [ctrk EXCEPT !.started = @ + 1,
                     !.th[t] = [IdleRecorder EXCEPT !.context = c,
                                  !.pc = IF ctrk.history = <<>> THEN "append_first"
                                         ELSE "read_previous"]]

\* self._history.append((now, context)); return None
RecAppendFirst(t) ==
    /\ ctrk.th[t].pc = "append_first"
    /\ ctrk' = [ctrk EXCEPT !.appended = @ + 1,
                    !.history = Append(@, [n |-> ctrk.appended + 1,
                                           context |-> ctrk.th[t].context]),
                    !.th[t] = IdleRecorder]

\* previous = self._history[-1][1]; transition = self._detect_transition(...)
RecReadPrevious(t) ==
    /\ ctrk.th[t].pc = "read_previous"
    /\ ctrk' = [ctrk EXCEPT !.th[t].pc = "append",
                    !.th[t].previous = ctrk.history[Len(ctrk.history)].n]

\* self._history.append((now, context))
RecAppend(t) ==
    /\ ctrk.th[t].pc = "append"
    /\ ctrk' = [ctrk EXCEPT !.appended = @ + 1,
                    !.history = Append(@, [n |-> ctrk.appended + 1,
                                           context |-> ctrk.th[t].context]),
                    !.th[t].current = ctrk.appended + 1,
                    !.th[t].pc = "trim"]

\* if len(self._history) > self._max_history: ... self._history[-max_history:]
RecTrim(t) ==
    /\ ctrk.th[t].pc = "trim"
    /\ ctrk' = IF Len(ctrk.history) > ctrk.max_history
               THEN [ctrk EXCEPT !.th[t].pc = "trim_assign",
                         !.th[t].slice = Trim(ctrk.history, ctrk.max_history)]
               ELSE [ctrk EXCEPT !.th[t].pc = "return"]

\* self._history = (the slice)
RecTrimAssign(t) ==
    /\ ctrk.th[t].pc = "trim_assign"
    /\ ctrk' = [ctrk EXCEPT !.history = ctrk.th[t].slice, !.th[t].pc = "return",
                    !.th[t].slice = <<>>]

\* return transition
RecReturn(t) ==
    /\ ctrk.th[t].pc = "return"
    /\ ctrk' = [ctrk EXCEPT !.th[t] = IdleRecorder]

recordersRest == <<cfg, now, seen, call, admitted, thr, reg, hcall, ex, trk, comp, rev, rc, rthr, lreg, audit>>

InitRecorders ==
    /\ ctrk \in [max_history : 1..MaxHistory, history : {<<>>}, appended : {0},
                 started : {0}, th : {[t \in Threads |-> IdleRecorder]}]
    /\ EarlierInit
    /\ LaterInitBut("ctrk")

NextRecorders ==
    \/ \E t \in Threads : RecStart(t) /\ UNCHANGED recordersRest
    \/ \E t \in Threads : RecAppendFirst(t) /\ UNCHANGED recordersRest
    \/ \E t \in Threads : RecReadPrevious(t) /\ UNCHANGED recordersRest
    \/ \E t \in Threads : RecAppend(t) /\ UNCHANGED recordersRest
    \/ \E t \in Threads : RecTrim(t) /\ UNCHANGED recordersRest
    \/ \E t \in Threads : RecTrimAssign(t) /\ UNCHANGED recordersRest
    \/ \E t \in Threads : RecReturn(t) /\ UNCHANGED recordersRest

SpecRecorders == InitRecorders /\ [][NextRecorders]_vars

\* C19: with concurrent record callers the history is, in the order the
\* appends took effect, the newest entries with none missing, and a returned
\* transition's previous context is the entry just before its current one.
C19_RecordsSerialized ==
    /\ \A i \in 1..Len(ctrk.history) :
        ctrk.history[i].n = ctrk.appended - Len(ctrk.history) + i
    /\ Len(ctrk.history) >= IF ctrk.appended < ctrk.max_history THEN ctrk.appended
                            ELSE ctrk.max_history
    /\ \A t \in Threads :
        ctrk.th[t].pc = "return" => ctrk.th[t].previous = ctrk.th[t].current - 1

(***************************************************************************)
(* LocalRegistry (identity/registry.py) under concurrent callers.  The     *)
(* class has no lock; register writes the prefix tree, the Bloom filter   *)
(* and the hash map one after the other.  Entries are public, and a find  *)
(* is a prefix query covering the token asked for.                        *)
(***************************************************************************)
NTokens == 2        \* distinct tokens

Tokens == 1..NTokens

IdleClient == [pc |-> "idle", token |-> 0, result |-> FALSE, complete |-> FALSE]

\* The token is in all three structures
FullyRegistered(l, k) == k \in l.tree /\ k \in l.bloom /\ k \in l.entries

\* A caller enters register, resolve, exists or find
LStart(t) ==
    /\ lreg.th[t].pc = "idle"
    /\ \E op \in {"tree_insert", "resolve", "might_contain", "find_prefix"}, k \in Tokens :
        lreg' = [lreg EXCEPT !.th[t] = [IdleClient EXCEPT !.pc = op, !.token = k]]

\* register: self._tree.insert(entry)
LTreeInsert(t) ==
    /\ lreg.th[t].pc = "tree_insert"
    /\ lreg' = [lreg EXCEPT !.tree = @ \cup {lreg.th[t].token}, !.th[t].pc = "bloom_add"]

\* register: self._bloom.add(token.canonical)
LBloomAdd(t) ==
    /\ lreg.th[t].pc = "bloom_add"
    /\ lreg' = [lreg EXCEPT !.bloom = @ \cup {lreg.th[t].token}, !.th[t].pc = "store"]

\* register: self._entries[token.canonical] = entry; return entry
LStore(t) ==
    /\ lreg.th[t].pc = "store"
    /\ lreg' = [lreg EXCEPT !.entries = @ \cup {lreg.th[t].token}, !.th[t] = IdleClient]

\* The answer of a query, with whether the registration of the token was
\* complete at the instant the answer was read
Answer(l, t, found) ==
    [l EXCEPT !.th[t].pc = "done", !.th[t].result = found,
              !.th[t].complete = FullyRegistered(l, l.th[t].token)]

\* resolve: return self._entries.get(token.canonical)
LResolve(t) ==
    /\ lreg.th[t].pc = "resolve"
    /\ lreg' = Answer(lreg, t, lreg.th[t].token \in lreg.entries)

\* exists: if not self._bloom.might_contain(...): return False
LMightContain(t) ==
    /\ lreg.th[t].pc = "might_contain"
    /\ lreg' = IF lreg.th[t].token \in lreg.bloom
               THEN [lreg EXCEPT !.th[t].pc = "in_entries"]
               ELSE Answer(lreg, t, FALSE)

\* exists: return token.canonical in self._entries
LInEntries(t) ==
    /\ lreg.th[t].pc = "in_entries"
    /\ lreg' = Answer(lreg, t, lreg.th[t].token \in lreg.entries)

\* find("prefix.**"): self._tree.find_prefix(...), which reads the tree only
LFindPrefix(t) ==
    /\ lreg.th[t].pc = "find_prefix"
    /\ lreg' = Answer(lreg, t, lreg.th[t].token \in lreg.tree)

LDone(t) ==
    /\ lreg.th[t].pc = "done"
    /\ lreg' = [lreg EXCEPT !.th[t] = IdleClient]

clientsRest == <<cfg, now, seen, call, admitted, thr, reg, hcall, ex, trk, comp, rev, rc, rthr, ctrk, audit>>

\* LocalRegistry.__init__
InitClients ==
    /\ lreg = [tree |-> {}, bloom |-> {}, entries |-> {},
               th |-> [t \in Threads |-> IdleClient]]
    /\ EarlierInit
    /\ LaterInitBut("lreg")

NextClients ==
    \/ \E t \in Threads : LStart(t) /\ UNCHANGED clientsRest
    \/ \E t \in Threads : LTreeInsert(t) /\ UNCHANGED clientsRest
    \/ \E t \in Threads : LBloomAdd(t) /\ UNCHANGED clientsRest
    \/ \E t \in Threads : LStore(t) /\ UNCHANGED clientsRest
    \/ \E t \in Threads : LResolve(t) /\ UNCHANGED clientsRest
    \/ \E t \in Threads : LMightContain(t) /\ UNCHANGED clientsRest
    \/ \E t \in Threads : LInEntries(t) /\ UNCHANGED clientsRest
    \/ \E t \in Threads : LFindPrefix(t) /\ UNCHANGED clientsRest
    \/ \E t \in Threads : LDone(t) /\ UNCHANGED clientsRest

SpecClients == InitClients /\ [][NextClients]_vars

\* C20: a query running next to a register returns a token only if the
\* token is in the prefix tree, the Bloom filter and the hash map alike.
C20_NoPartialRegistration ==
    \A t \in Threads :
        (lreg.th[t].pc = "done" /\ lreg.th[t].result) => lreg.th[t].complete

(***************************************************************************)
(* Composer in base, extend and strict mode.                               *)
(*                                                                         *)
(* Here a rule is written out with its spacing: w is the sequence of its   *)
(* words and wide tells that two spaces follow the first word instead of   *)
(* one.  str.split() and the one-word keywords do not see the spacing;     *)
(* the rule string itself, and so str.lower().strip(), does.               *)
(***************************************************************************)
Spelled(words, wide) == [w |-> words, wide |-> wide]

\* The rules the constitutions of these modes are written with
ModeRules ==
    {Spelled(<<"Always", "use", "formal", "language">>, FALSE),
     Spelled(<<"always", "use", "formal", "language">>, FALSE),
     Spelled(<<"never", "use", "formal", "language">>, FALSE),
     Spelled(<<"must", "use", "formal", "language">>, FALSE),
     Spelled(<<"must", "use", "formal", "language">>, TRUE),
     Spelled(<<>>, FALSE)}

ModeInputs == SeqsUpTo(SeqsUpTo(ModeRules, MaxRules), MaxConstitutions)

\* Constitution.__post_init__ on spelled rules: blank rules are dropped
RECURSIVE NormalizeSpelled(_)
NormalizeSpelled(rules) ==
    IF rules = <<>> THEN <<>>
    ELSE IF rules[1].w = <<>> THEN NormalizeSpelled(Tail(rules))
    ELSE <<rules[1]>> \o NormalizeSpelled(Tail(rules))

MkSpelled(raw) == [c \in 1..Len(raw) |-> [id |-> c, rules |-> NormalizeSpelled(raw[c])]]

\* _detect_conflict: the first existing rule that _rules_conflict(rule,
\* existing_rule) holds of, as its position, or 0
DetectConflict(rule, existing) ==
    LET hits == {i \in 1..Len(existing) : RulesConflict(rule.w, existing[i].w)}
    IN  IF hits = {} THEN 0 ELSE CHOOSE i \in hits : \A j \in hits : i <= j

\* normalized = rule.lower().strip() in _compose_strict
StrictKey(rule) == Spelled(LowerRule(rule.w), rule.wide)

\* The body of the inner loops of _compose_base (for a later constitution),
\* _compose_extend and _compose_strict, for one rule
ModeStep(mode, acc, c, rule) ==
    LET hit == DetectConflict(rule, acc.merged)
    IN  IF mode = "strict" /\ StrictKey(rule) \in acc.seen
        THEN [acc EXCEPT !.conflicts =
                Append(@, [rule_a |-> rule, source_a |-> c, rule_b |-> rule,
                           conflict_type |-> "duplicate"])]
        ELSE IF hit # 0
        THEN [acc EXCEPT !.conflicts =
                Append(@, [rule_a |-> rule, source_a |-> c, rule_b |-> acc.merged[hit],
                           conflict_type |-> "conflict"])]
        ELSE [acc EXCEPT !.merged = Append(@, rule), !.seen = @ \cup {StrictKey(rule)}]

RECURSIVE ModeFrom(_, _, _, _, _)
ModeFrom(mode, consts, c, k, acc) ==
    IF c > Len(consts) THEN acc
    ELSE IF k > Len(consts[c].rules) THEN ModeFrom(mode, consts, c + 1, 1, acc)
    ELSE ModeFrom(mode, consts, c, k + 1, ModeStep(mode, acc, c, consts[c].rules[k]))

ModeResult(merged, conflicts) ==
    [out |-> "result", merged |-> merged, conflicts |-> conflicts]

ConflictError(conflicts) ==
    [out |-> "CompositionConflictError", merged |-> <<>>, conflicts |-> conflicts]

\* Composer.compose in one of the three modes
ComposeMode(mode, consts) ==
    LET start == [merged |-> IF mode = "base" /\ consts # <<>> THEN consts[1].rules
                             ELSE <<>>,
                  conflicts |-> <<>>, seen |-> {}]
        r == ModeFrom(mode, consts, IF mode = "base" THEN 2 ELSE 1, 1, start)
    IN  IF consts = <<>> THEN ModeResult(<<>>, <<>>)
        ELSE IF mode = "base" THEN ModeResult(r.merged, r.conflicts)
        ELSE IF r.conflicts # <<>> THEN ConflictError(r.conflicts)
        ELSE ModeResult(r.merged, <<>>)

\* Composer(hook_executor=...): the class defines no __init__, so a keyword
\* argument is a TypeError; Composer() constructs
NewComposer(executor) == IF executor = "none" THEN "composer" ELSE "TypeError"

Reversed(q) == [i \in 1..Len(q) |-> q[Len(q) + 1 - i]]

\* What an on_conflict hook handed to the Composer would answer
ConflictHooks == {"none", "continue", "modify"}

\* Composer(...).compose(constitutions, mode); backwards is the same call on
\* the constitutions in the opposite order
ComposeIn(mode, raw, executor) ==
    LET consts == MkSpelled(raw)
        r == ComposeMode(mode, consts)
    IN  comp' = IF NewComposer(executor) = "TypeError"
                THEN [mode |-> mode, constitutions |-> consts, executor |-> executor,
                      out |-> "TypeError", merged |-> <<>>, conflicts |-> <<>>,
                      backwards |-> "TypeError"]
                ELSE [mode |-> mode, constitutions |-> consts, executor |-> executor,
                      out |-> r.out, merged |-> r.merged, conflicts |-> r.conflicts,
                      backwards |-> ComposeMode(mode, Reversed(consts)).out]

NextModes ==
    \/ /\ comp = Idle
       /\ \E mode \in {"base", "extend", "strict"}, raw \in ModeInputs,
             executor \in ConflictHooks :
            ComposeIn(mode, raw, executor)
       /\ UNCHANGED composeRest
    \/ ComposeReturn /\ UNCHANGED composeRest

SpecModes == InitCompose /\ [][NextModes]_vars

\* A call of compose in one of the three modes has returned or raised
ModeCalled(mode) == comp # Idle /\ comp.mode = mode

\* The conflict of the specification: one of the two rules holds a keyword
\* whose opposite is in the other, and they share two significant words
Conflicting(a, b) == RulesConflict(a.w, b.w) \/ RulesConflict(b.w, a.w)

RECURSIVE AllRules(_)
AllRules(consts) ==
    IF consts = <<>> THEN <<>> ELSE consts[1].rules \o AllRules(Tail(consts))

\* C21: when conflicts are detected in extend or strict mode and a hook
\* executor whose on_conflict hook answers modify with a replacement ruleset
\* is attached, compose returns a result and does not raise.
C21_ConflictHookResolves ==
    (/\ comp # Idle
     /\ comp.mode \in {"extend", "strict"}
     /\ comp.executor = "modify"
     /\ ComposeMode(comp.mode, comp.constitutions).out = "CompositionConflictError")
        => comp.out = "result"

\* C22: in strict mode two rules that are equal after case folding and
\* whitespace normalization, or two rules that conflict, make compose raise
\* CompositionConflictError.
C22_StrictRejects ==
    (/\ ModeCalled("strict")
     /\ comp.executor = "none"
     /\ LET all == AllRules(comp.constitutions)
        IN  \E i, j \in 1..Len(all) :
                /\ i < j
                /\ \/ LowerRule(all[i].w) = LowerRule(all[j].w)
                   \/ Conflicting(all[i], all[j]))
        => comp.out = "CompositionConflictError"

\* C23: whether extend raises does not depend on the order of the
\* constitutions, the verdict on two rules being the same both ways round.
C23_ConflictSymmetric ==
    (ModeCalled("extend") /\ comp.executor = "none") => comp.out = comp.backwards

\* C24: in base mode compose returns a result whose merged_rules start with
\* the rules of the first constitution; a later rule is in merged_rules only
\* if it conflicts with no rule before it there, and every later rule is
\* either appended or recorded in conflicts.
C24_BaseAuthoritative ==
    (ModeCalled("base") /\ comp.executor = "none" /\ comp.constitutions # <<>>)
        => LET first == comp.constitutions[1].rules
               later == AllRules(Tail(comp.constitutions))
           IN  /\ comp.out = "result"
               /\ SubSeq(comp.merged, 1, Len(first)) = first
               /\ \A j \in (Len(first) + 1)..Len(comp.merged) :
                      \A i \in 1..(j - 1) :
                          ~Conflicting(comp.merged[i], comp.merged[j])
               /\ Len(comp.merged) + Len(comp.conflicts) = Len(first) + Len(later)

(***************************************************************************)
(* LocalRegistry: register, subscribe and find, one call at a time.        *)
(*                                                                         *)
(* A token is the sequence of its segments and a pattern the sequence of   *)
(* its dot-separated parts.  The entries are kept in registration order,   *)
(* the order of the _entries dict; a prefix tree node exists when an entry *)
(* was inserted at or below it.                                            *)
(***************************************************************************)
MaxSubscriptions == 1   \* subscriptions held at a time

PrivacyTier == {"public", "organizational", "community", "personal", "pseudonymous"}

\* The order of str on the values of PrivacyTier, as PrefixTree.insert
\* compares them
TierValueOrder ==
    [community |-> 1, organizational |-> 2, personal |-> 3, pseudonymous |-> 4,
     public |-> 5]

RegistryTokens ==
    {<<"user", "alice", "notes">>, <<"user", "alice", "diary">>, <<"user", "bob", "notes">>}

OwnerOf(token) == token[2]

FindPatterns ==
    {<<"user", "alice", "**">>, <<"user", "**">>, <<"user", "*", "notes">>,
     <<"user", "alice", "*">>}

\* create_authorization(...): a stranger, the owner alice, the holder of the
\* prefix user.alice, and an admin
Authorizations ==
    {[requester_id |-> "mallory", owned_prefixes |-> {}, is_admin |-> FALSE],
     [requester_id |-> "alice", owned_prefixes |-> {}, is_admin |-> FALSE],
     [requester_id |-> "carol", owned_prefixes |-> {<<"user", "alice">>}, is_admin |-> FALSE],
     [requester_id |-> "root", owned_prefixes |-> {}, is_admin |-> TRUE]}

IsPrefixOf(p, q) == Len(p) <= Len(q) /\ SubSeq(q, 1, Len(p)) = p

\* Token.matches_pattern
MatchesPattern(segments, parts) ==
    IF \E i \in 1..Len(parts) : parts[i] = "**"
    THEN LET idx == CHOOSE i \in 1..Len(parts) :
                        parts[i] = "**" /\ \A j \in 1..(i - 1) : parts[j] # "**"
             prefix == SubSeq(parts, 1, idx - 1)
             suffix == SubSeq(parts, idx + 1, Len(parts))
         IN  /\ Len(segments) >= Len(prefix) + Len(suffix)
             /\ \A i \in 1..Len(prefix) : prefix[i] = "*" \/ prefix[i] = segments[i]
             /\ \A i \in 1..Len(suffix) :
                    suffix[i] = "*" \/ suffix[i] = segments[Len(segments) - Len(suffix) + i]
    ELSE /\ Len(parts) = Len(segments)
         /\ \A i \in 1..Len(parts) : parts[i] = "*" \/ parts[i] = segments[i]

\* PrefixTree.insert, as the tier it leaves on the node at a prefix: the
\* node starts public and takes an entry's tier when that compares greater
RECURSIVE NodeTier(_, _)
NodeTier(entries, prefix) ==
    IF entries = <<>> \/ prefix = <<>> THEN "public"
    ELSE LET before == NodeTier(SubSeq(entries, 1, Len(entries) - 1), prefix)
             entry == entries[Len(entries)]
         IN  IF /\ IsPrefixOf(prefix, entry.token)
                /\ TierValueOrder[entry.privacy_tier] > TierValueOrder[before]
             THEN entry.privacy_tier
             ELSE before

\* PrefixTree._can_enumerate; no requester here holds a membership
CanEnumerate(tier, prefix, auth) ==
    \/ auth.is_admin
    \/ tier = "public"
    \/ tier \in {"personal", "pseudonymous"} /\ prefix \in auth.owned_prefixes

\* PrefixTree._can_access_entry; no requester here holds a membership
CanAccessEntry(entry, auth) ==
    \/ entry.privacy_tier = "public"
    \/ auth.is_admin
    \/ entry.owner_id = auth.requester_id
    \/ /\ entry.privacy_tier \in {"personal", "pseudonymous"}
       /\ \E prefix \in auth.owned_prefixes : IsPrefixOf(prefix, entry.token)

Positions(entries, Keep(_)) == {i \in 1..Len(entries) : Keep(entries[i])}

\* PrefixTree.find_prefix with _count_entries and _collect_entries; fewer
\* entries than max_results
FindPrefix(entries, prefix, auth) ==
    LET Under(entry) == IsPrefixOf(prefix, entry.token)
        Shown(entry) == Under(entry) /\ CanAccessEntry(entry, auth)
        Hidden(entry) == Under(entry) /\ ~CanAccessEntry(entry, auth)
    IN  IF Positions(entries, Under) = {}
        THEN [tokens |-> {}, redacted |-> 0]
        ELSE IF ~CanEnumerate(NodeTier(entries, prefix), prefix, auth)
        THEN [tokens |-> {}, redacted |-> Cardinality(Positions(entries, Under))]
        ELSE [tokens |-> {entries[i].token : i \in Positions(entries, Shown)},
              redacted |-> Cardinality(Positions(entries, Hidden))]

\* LocalRegistry.find for a prefix query (pattern ending in .**) and for a
\* pattern of single-segment wildcards; fewer entries than max_results
Find(entries, pattern, auth) ==
    IF pattern[Len(pattern)] = "**"
    THEN FindPrefix(entries, SubSeq(pattern, 1, Len(pattern) - 1), auth)
    ELSE LET Shown(entry) == /\ CanAccessEntry(entry, auth)
                             /\ MatchesPattern(entry.token, pattern)
             Hidden(entry) == ~CanAccessEntry(entry, auth)
         IN  [tokens |-> {entries[i].token : i \in Positions(entries, Shown)},
              redacted |-> Cardinality(Positions(entries, Hidden))]

\* The prefix _notify_subscribers navigates to: the parts before the first
\* wildcard
RECURSIVE NotifyPrefix(_)
NotifyPrefix(pattern) ==
    IF pattern = <<>> \/ pattern[1] \in {"*", "**"} THEN <<>>
    ELSE <<pattern[1]>> \o NotifyPrefix(Tail(pattern))

\* LocalRegistry._notify_subscribers: the subscriptions whose callback is
\* called for the token
Notified(entries, subscriptions, token) ==
    {i \in 1..Len(subscriptions) :
        /\ MatchesPattern(token, subscriptions[i].pattern)
        /\ CanEnumerate(NodeTier(entries, NotifyPrefix(subscriptions[i].pattern)),
                        NotifyPrefix(subscriptions[i].pattern), subscriptions[i].auth)}

HasToken(l, token) == \E i \in 1..Len(l.entries) : l.entries[i].token = token

\* LocalRegistry.register of a token not registered before
LRegister(token, tier) ==
    LET entry == [token |-> token, privacy_tier |-> tier,
                  owner_id |-> IF tier = "public" THEN "None" ELSE OwnerOf(token)]
        entries == Append(lreg.entries, entry)
    IN  lreg' = [lreg EXCEPT
                    !.entries = entries,
                    !.last = [op |-> "register", token |-> token,
                              notified |-> Notified(entries, lreg.subscriptions, token),
                              tokens |-> {}, redacted |-> 0,
                              pattern |-> <<>>, auth |-> "None"]]

\* LocalRegistry.subscribe
LSubscribe(pattern, auth) ==
    lreg' = [lreg EXCEPT !.subscriptions = Append(@, [pattern |-> pattern, auth |-> auth])]

\* LocalRegistry.unsubscribe
LUnsubscribe(i) ==
    lreg' = [lreg EXCEPT !.subscriptions =
                SubSeq(@, 1, i - 1) \o SubSeq(@, i + 1, Len(@))]

\* LocalRegistry.find
LFind(pattern, auth) ==
    LET r == Find(lreg.entries, pattern, auth)
    IN  lreg' = [lreg EXCEPT
                    !.last = [op |-> "find", token |-> <<>>, notified |-> {},
                              tokens |-> r.tokens, redacted |-> r.redacted,
                              pattern |-> pattern, auth |-> auth]]

LReturn ==
    /\ lreg.last # Idle
    /\ lreg' = [lreg EXCEPT !.last = Idle]

\* LocalRegistry.__init__
InitDirectory ==
    /\ lreg = [entries |-> <<>>, subscriptions |-> <<>>, last |-> Idle]
    /\ EarlierInit
    /\ LaterInitBut("lreg")

NextDirectory ==
    \/ /\ lreg.last = Idle
       /\ \E token \in RegistryTokens, tier \in {"public", "personal"} :
            /\ ~HasToken(lreg, token)
            /\ LRegister(token, tier)
       /\ UNCHANGED clientsRest
    \/ /\ lreg.last = Idle
       /\ Len(lreg.subscriptions) < MaxSubscriptions
       /\ \E pattern \in FindPatterns, auth \in Authorizations : LSubscribe(pattern, auth)
       /\ UNCHANGED clientsRest
    \/ /\ lreg.last = Idle
       /\ \E i \in 1..Len(lreg.subscriptions) : LUnsubscribe(i)
       /\ UNCHANGED clientsRest
    \/ /\ lreg.last = Idle
       /\ \E pattern \in FindPatterns, auth \in Authorizations : LFind(pattern, auth)
       /\ UNCHANGED clientsRest
    \/ LReturn /\ UNCHANGED clientsRest

SpecDirectory == InitDirectory /\ [][NextDirectory]_vars

\* The entries a find with the pattern and the authorization withholds
Withheld(pattern, auth) ==
    {i \in 1..Len(lreg.entries) :
        /\ MatchesPattern(lreg.entries[i].token, pattern)
        /\ lreg.entries[i].token \notin lreg.last.tokens}

\* C26: a wildcard find does not return the token of an entry the requester
\* may not access, and its redacted_count is the number of entries that
\* match the pattern and were withheld.
C26_RedactedCountsMatches ==
    (lreg.last # Idle /\ lreg.last.op = "find") =>
        /\ \A i \in 1..Len(lreg.entries) :
               lreg.entries[i].token \in lreg.last.tokens
                   => CanAccessEntry(lreg.entries[i], lreg.last.auth)
        /\ lreg.last.redacted = Cardinality(Withheld(lreg.last.pattern, lreg.last.auth))

\* C27: a subscriber's callback is called for a newly registered token only
\* if a find with the subscriber's pattern and authorization returns the
\* token.
C27_NotifyAsFind ==
    (lreg.last # Idle /\ lreg.last.op = "register") =>
        \A i \in lreg.last.notified :
            lreg.last.token \in Find(lreg.entries, lreg.subscriptions[i].pattern,
                                     lreg.subscriptions[i].auth).tokens

(***************************************************************************)
(* AuditLogger, with the Orchestrator whose verify outcomes are logged.    *)
(*                                                                         *)
(* The Orchestrator holds no AuditLogger; the caller of verify hands the   *)
(* bundle and the result it got to log_verification.  An entry carries,    *)
(* beside its own fields, the steps the logged verify call ran.            *)
(***************************************************************************)
MaxAudit == 1   \* entries logged

auditRest == <<reg, hcall, ex, trk, comp, rev, rc, rthr, ctrk, lreg>>

\* VerificationResult.value
ResultValue ==
    [VALID |-> 0, SIZE_EXCEEDED |-> 1, INVALID_SCHEMA |-> 2, UNTRUSTED_ISSUER |-> 3,
     INVALID_SIGNATURE |-> 4, UNTRUSTED_AUDITOR |-> 5, INVALID_ATTESTATION |-> 6,
     HASH_MISMATCH |-> 7, NOT_YET_VALID |-> 8, EXPIRED |-> 9, FUTURE_TIMESTAMP |-> 10,
     REPLAY_DETECTED |-> 11, TOKEN_MISMATCH |-> 12, BUDGET_EXCEEDED |-> 13,
     SCOPE_MISMATCH |-> 14, REVOKED |-> 15, FETCH_FAILED |-> 16]

\* checks of log_verification for VerificationResult.VALID
ValidChecks ==
    <<"size", "schema", "signature", "attestation", "hash", "temporal", "replay",
      "budget", "scope", "revocation">>

\* check_order of log_verification
CheckOrder ==
    <<"size", "schema", "issuer", "signature", "auditor", "attestation", "hash", "nbf",
      "exp", "timestamp", "replay", "tokens", "budget", "scope", "revoked">>

\* "Determine checks passed" of log_verification
ChecksPassed(result) ==
    IF result = "VALID" THEN ValidChecks
    ELSE IF ResultValue[result] > 0 /\ ResultValue[result] <= Len(CheckOrder)
    THEN SubSeq(CheckOrder, 1, ResultValue[result] - 1)
    ELSE <<>>

\* AuditLogger.log_verification(bundle, result, session_id), called with the
\* result of the verify call that just returned
LogVerification ==
    /\ call # Idle
    /\ call.result # RAISED
    /\ Len(audit.entries) < MaxAudit
    /\ audit' = [audit EXCEPT !.entries =
                    Append(@, [verification_result |-> call.result,
                               checks_passed |-> ChecksPassed(call.result),
                               ran |-> call.steps])]
    /\ UNCHANGED <<cfg, now, seen, call, admitted, concVars, auditRest>>

\* Orchestrator.__init__ and AuditLogger.__init__
InitAudit ==
    /\ cfg \in Configs
    /\ InitOrch
    /\ thr = InitThreads
    /\ reg = NewRegistry /\ hcall = Idle /\ ex = Idle /\ trk = Idle /\ comp = Idle
    /\ audit = [entries |-> <<>>]
    /\ LaterInitBut("audit")

NextAudit ==
    \/ VerifyCall /\ UNCHANGED <<concVars, orchRest>>
    \/ LogVerification
    \/ Return /\ UNCHANGED <<concVars, orchRest>>
    \/ Tick /\ UNCHANGED <<concVars, orchRest>>

SpecAudit == InitAudit /\ [][NextAudit]_vars

\* The step of verify an audit check name stands for; schema is checked
\* when the bundle is parsed, before verify
StepOfCheck ==
    [size |-> "size", schema |-> "parse", issuer |-> "issuer_trust",
     signature |-> "manifest_signature", auditor |-> "auditor_trust",
     attestation |-> "attestation", hash |-> "content_hash", nbf |-> "temporal",
     exp |-> "temporal", timestamp |-> "temporal", replay |-> "replay",
     tokens |-> "budget", budget |-> "budget", scope |-> "scope",
     revoked |-> "revocation", temporal |-> "temporal", revocation |-> "revocation"]

\* The steps with a check name
NamedSteps == {StepOfCheck[n] : n \in DOMAIN StepOfCheck} \ {"parse"}

\* C28: on VALID checks_passed is the full list of checks; on a failure the
\* checks it names are those of the steps verify ran before the step it
\* failed at (the checks of the failing step itself left aside).
C28_ChecksPassedPrefix ==
    \A i \in 1..Len(audit.entries) :
        LET e == audit.entries[i]
            failing == e.ran[Len(e.ran)]
            named == {StepOfCheck[e.checks_passed[k]] : k \in 1..Len(e.checks_passed)}
            passed == {e.ran[k] : k \in 1..(Len(e.ran) - 1)}
        IN  IF e.verification_result = "VALID"
            THEN e.checks_passed = ValidChecks
            ELSE (named \cap NamedSteps) \ {failing} = (passed \cap NamedSteps) \ {failing}

\* C29: every verify call appends exactly one entry to the audit log.
C29_OneEntryPerVerify ==
    [][(call = Idle /\ call' # Idle) => Len(audit'.entries) = Len(audit.entries) + 1]_vars

\* The tiers from the least to the most strict, as PrivacyTier lists them
Strictness ==
    [public |-> 1, organizational |-> 2, community |-> 3, personal |-> 4,
     pseudonymous |-> 5]

\* The nodes of the prefix tree below the root: the prefixes of the tokens
\* registered
TreeNodes ==
    {p \in UNION {{SubSeq(t, 1, n) : n \in 1..Len(t)} : t \in RegistryTokens} :
        \E i \in 1..Len(lreg.entries) : IsPrefixOf(p, lreg.entries[i].token)}

\* C33: after any sequence of register operations every node of the prefix
\* tree carries the strictest privacy tier among the entries stored at or
\* below it.
C33_NodeCarriesStrictest ==
    \A node \in TreeNodes :
        LET below == {i \in 1..Len(lreg.entries) : IsPrefixOf(node, lreg.entries[i].token)}
            tier == NodeTier(lreg.entries, node)
        IN  /\ \A i \in below : Strictness[tier] >= Strictness[lreg.entries[i].privacy_tier]
            /\ \E i \in below : tier = lreg.entries[i].privacy_tier

(***************************************************************************)
(* StateTracker with its transition handlers.                              *)
(*                                                                         *)
(* _handlers[severity] is a list in registration order; here the lists of  *)
(* all severities are one sequence of registrations, and a handler either  *)
(* returns or raises when called.                                          *)
(***************************************************************************)
MaxHandlers == 2   \* registrations held at a time

HandlerFns == {"quiet", "failing"}

HandlerContexts ==
    {BaseContext,
     [BaseContext EXCEPT !.time = "evening"],
     [BaseContext EXCEPT !.occasion = "celebration"],
     [BaseContext EXCEPT !.occasion = "emergency_sign"]}

\* RedisStateTracker.record's handler loop: each call in try/except, so the
\* loop goes on after a handler raised
RECURSIVE InvokeAll(_, _, _, _)
InvokeAll(regs, severity, i, invoked) ==
    IF i > Len(regs) THEN [invoked |-> invoked, raised |-> FALSE]
    ELSE IF regs[i].severity # severity THEN InvokeAll(regs, severity, i + 1, invoked)
    ELSE InvokeAll(regs, severity, i + 1, Append(invoked, i))

\* for handler in self._handlers[transition.severity]: handler(transition),
\* from registration i on; the registrations called, and whether one raised
RECURSIVE InvokeFrom(_, _, _, _)
InvokeFrom(regs, severity, i, invoked) ==
    IF i > Len(regs) THEN [invoked |-> invoked, raised |-> FALSE]
    ELSE IF regs[i].severity # severity THEN InvokeFrom(regs, severity, i + 1, invoked)
    ELSE IF regs[i].handler = "failing"
    THEN [invoked |-> Append(invoked, i), raised |-> TRUE]
    ELSE InvokeFrom(regs, severity, i + 1, Append(invoked, i))

\* StateTracker.record with its handlers; hook is what the on_transition
\* chain does if fired
RecordInvoking(t, context, hook) ==
    IF t.history = <<>>
    THEN [history |-> <<context>>, ret |-> "None", severity |-> "none",
          hook |-> "not_fired", invoked |-> <<>>]
    ELSE LET tr == DetectTransition(t.history[Len(t.history)], context)
             h2 == Trim(Append(t.history, context), t.max_history)
             fired == tr.severity # "none" /\ t.has_executor
             inv == IF tr.severity # "none" THEN InvokeFrom(t.regs, tr.severity, 1, <<>>)
                    ELSE [invoked |-> <<>>, raised |-> FALSE]
         IN  IF fired /\ hook = "aborted"
             THEN [history |-> Pop(h2), ret |-> "None", severity |-> tr.severity,
                   hook |-> hook, invoked |-> <<>>]
             ELSE [history |-> h2, ret |-> IF inv.raised THEN RAISED ELSE "transition",
                   severity |-> tr.severity,
                   hook |-> IF fired THEN hook ELSE "not_fired",
                   invoked |-> inv.invoked]

HRecord(context, hook) ==
    LET r == RecordInvoking(trk, context, hook)
    IN  trk' = [trk EXCEPT !.history = r.history,
                           !.last = [op |-> "record", ret |-> r.ret,
                                     severity |-> r.severity, hook |-> r.hook,
                                     invoked |-> r.invoked]]

\* StateTracker.register_handler
HRegister(severity, handler) ==
    trk' = [trk EXCEPT !.regs = Append(@, [severity |-> severity, handler |-> handler])]

\* StateTracker.unregister_handler: list.remove takes the first occurrence out
HUnregister(severity, handler) ==
    LET hits == {i \in 1..Len(trk.regs) :
                    trk.regs[i] = [severity |-> severity, handler |-> handler]}
        first == CHOOSE i \in hits : \A j \in hits : i <= j
    IN  /\ hits # {}
        /\ trk' = [trk EXCEPT !.regs = SubSeq(@, 1, first - 1) \o SubSeq(@, first + 1, Len(@))]

HandlersReturn ==
    /\ trk.last # Idle
    /\ trk' = [trk EXCEPT !.last = Idle]

\* StateTracker.__init__
InitHandlers ==
    /\ trk \in [max_history : {MaxHistory}, has_executor : BOOLEAN,
                history : {<<>>}, regs : {<<>>}, last : {Idle}]
    /\ TrackerRestInit

NextHandlers ==
    \/ /\ trk.last = Idle
       /\ \E context \in HandlerContexts, hook \in HookOutcomes : HRecord(context, hook)
       /\ UNCHANGED trackerRest
    \/ /\ trk.last = Idle
       /\ Len(trk.regs) < MaxHandlers
       /\ \E severity \in TransitionSeverity, handler \in HandlerFns :
            HRegister(severity, handler)
       /\ UNCHANGED trackerRest
    \/ /\ trk.last = Idle
       /\ \E severity \in TransitionSeverity, handler \in HandlerFns :
            HUnregister(severity, handler)
       /\ UNCHANGED trackerRest
    \/ HandlersReturn /\ UNCHANGED trackerRest

SpecHandlers == InitHandlers /\ [][NextHandlers]_vars

\* How often registration i was called in the last record call
TimesInvoked(i) ==
    Cardinality({k \in 1..Len(trk.last.invoked) : trk.last.invoked[k] = i})

\* C35: when record detects a transition of a severity other than none and
\* no hook aborts it, every handler registered for that severity is invoked
\* exactly once and no handler registered for another severity is invoked.
C35_HandlersPerSeverity ==
    (/\ trk.last # Idle
     /\ trk.last.severity # "none"
     /\ trk.last.hook # "aborted")
        => \A i \in 1..Len(trk.regs) :
               TimesInvoked(i) = IF trk.regs[i].severity = trk.last.severity THEN 1 ELSE 0

(***************************************************************************)
(* HybridStateTracker: an in-memory StateTracker and, when a Redis client  *)
(* was given, a RedisStateTracker over the session's history key.          *)
(***************************************************************************)
HybridContexts ==
    {BaseContext,
     [BaseContext EXCEPT !.time = "evening"],
     [BaseContext EXCEPT !.occasion = "celebration"]}

HybridSeverities == {"minor", "major"}

\* RedisStateTracker.record; up is whether Redis answers during the call
\* (_get_history gives [] on an error, a failed setex is logged)
RedisRecord(stored, max_history, regs, context, up) ==
    LET history == IF up THEN stored ELSE <<>>
    IN  IF history = <<>>
        THEN [stored |-> IF up THEN <<context>> ELSE stored,
              ret |-> "None", severity |-> "none", invoked |-> <<>>]
        ELSE LET tr == DetectTransition(history[Len(history)], context)
                 h2 == Trim(Append(history, context), max_history)
             IN  [stored |-> h2, ret |-> "transition", severity |-> tr.severity,
                  invoked |-> IF tr.severity # "none"
                              THEN InvokeAll(regs, tr.severity, 1, <<>>).invoked
                              ELSE <<>>]

\* HybridStateTracker.record
HybridRecordResult(h, context, up) ==
    LET m1 == RecordInvoking(h.memory, context, "not_fired")
        mem1 == [h.memory EXCEPT !.history = m1.history]
        m2 == RecordInvoking(mem1, context, "not_fired")
    IN  IF h.redis_active
        THEN LET rr == RedisRecord(h.stored, h.memory.max_history, h.redis_regs, context, up)
             IN  IF m1.ret # RAISED
                 THEN [memory |-> mem1, stored |-> rr.stored, ret |-> rr.ret,
                       severity |-> rr.severity, invoked |-> rr.invoked \o m1.invoked]
                 ELSE [memory |-> [mem1 EXCEPT !.history = m2.history],
                       stored |-> rr.stored, ret |-> m2.ret, severity |-> m2.severity,
                       invoked |-> rr.invoked \o m1.invoked \o m2.invoked]
        ELSE [memory |-> mem1, stored |-> h.stored, ret |-> m1.ret,
              severity |-> m1.severity, invoked |-> m1.invoked]

HybridRecord(context, up) ==
    LET r == HybridRecordResult(ctrk, context, up)
    IN  ctrk' = [ctrk EXCEPT !.memory = r.memory, !.stored = r.stored,
                             !.last = [op |-> "record", ret |-> r.ret,
                                       severity |-> r.severity, invoked |-> r.invoked]]

\* HybridStateTracker.register_handler
HybridRegister(severity, handler) ==
    LET entry == [severity |-> severity, handler |-> handler]
    IN  ctrk' = [ctrk EXCEPT !.memory.regs = Append(@, entry),
                             !.redis_regs = IF ctrk.redis_active THEN Append(@, entry) ELSE @]

HybridReturn ==
    /\ ctrk.last # Idle
    /\ ctrk' = [ctrk EXCEPT !.last = Idle]

\* HybridStateTracker.__init__
InitHybrid ==
    /\ ctrk \in [redis_active : BOOLEAN,
                 memory : [max_history : {MaxHistory}, has_executor : {FALSE},
                           history : {<<>>}, regs : {<<>>}],
                 stored : {<<>>}, redis_regs : {<<>>}, last : {Idle}]
    /\ EarlierInit
    /\ LaterInitBut("ctrk")

NextHybrid ==
    \/ /\ ctrk.last = Idle
       /\ \E context \in HybridContexts, up \in BOOLEAN : HybridRecord(context, up)
       /\ UNCHANGED recordersRest
    \/ /\ ctrk.last = Idle
       /\ Len(ctrk.memory.regs) < MaxHandlers
       /\ \E severity \in HybridSeverities, handler \in HandlerFns :
            HybridRegister(severity, handler)
       /\ UNCHANGED recordersRest
    \/ HybridReturn /\ UNCHANGED recordersRest

SpecHybrid == InitHybrid /\ [][NextHybrid]_vars

\* How often the handler of registration i was called in the last record call
HybridTimesInvoked(i) ==
    Cardinality({k \in 1..Len(ctrk.last.invoked) : ctrk.last.invoked[k] = i})

\* C36: with or without a Redis client, each handler registered through
\* register_handler is invoked exactly once per recorded transition of its
\* severity.
C36_HybridInvokesOnce ==
    (/\ ctrk.last # Idle
     /\ ctrk.last.ret = "transition"
     /\ ctrk.last.severity # "none")
        => \A i \in 1..Len(ctrk.memory.regs) :
               ctrk.memory.regs[i].severity = ctrk.last.severity
                   => HybridTimesInvoked(i) = 1

(***************************************************************************)
(* LocalRegistry.find with max_results, for every kind of pattern.         *)
(*                                                                         *)
(* The suffix and mixed queries compare strings, so a segment is spelled   *)
(* here as the sequence of its pieces ("footnotes" is "foot" then          *)
(* "notes") and a canonical name as the pieces of its segments with "."    *)
(* between them.                                                           *)
(***************************************************************************)
DefaultMaxResults == 100

MaxResultsInputs == {1, 2, DefaultMaxResults}

QueryTokens ==
    {<<"user", "alice", "notes">>, <<"user", "alice", "footnotes">>,
     <<"user", "bob", "notes">>}

QueryPatterns ==
    {<<"user", "alice", "**">>, <<"**", "notes">>, <<"user", "**", "notes">>,
     <<"user", "*", "notes">>, <<"user", "alice", "notes">>}

Pieces(segment) == IF segment = "footnotes" THEN <<"foot", "notes">> ELSE <<segment>>

\* ".".join(segments), as pieces
RECURSIVE Canonical(_)
Canonical(segments) ==
    IF segments = <<>> THEN <<>>
    ELSE IF Len(segments) = 1 THEN Pieces(segments[1])
    ELSE Pieces(segments[1]) \o <<".">> \o Canonical(Tail(segments))

\* str.endswith
StrEndsWith(text, suffix) ==
    /\ Len(suffix) <= Len(text)
    /\ SubSeq(text, Len(text) - Len(suffix) + 1, Len(text)) = suffix

RECURSIVE Ascending(_)
Ascending(S) ==
    IF S = {} THEN <<>>
    ELSE LET m == CHOOSE x \in S : \A y \in S : x <= y
         IN  <<m>> \o Ascending(S \ {m})

\* The order in which _collect_entries_recursive meets the entries at and
\* below the node of a prefix: the node's own entries as inserted, then its
\* children as created, each with its subtree
RECURSIVE SubtreeOrder(_, _)
RECURSIVE ChildrenOrder(_, _, _)
SubtreeOrder(entries, prefix) ==
    LET d == Len(prefix) + 1
        here == {i \in 1..Len(entries) : entries[i].token = prefix}
        below == {i \in 1..Len(entries) :
                     IsPrefixOf(prefix, entries[i].token) /\ Len(entries[i].token) >= d}
        firsts == {i \in below : \A j \in below :
                       j < i => entries[j].token[d] # entries[i].token[d]}
    IN  Ascending(here) \o ChildrenOrder(entries, prefix, Ascending(firsts))

ChildrenOrder(entries, prefix, firsts) ==
    IF firsts = <<>> THEN <<>>
    ELSE SubtreeOrder(entries, Append(prefix, entries[firsts[1]].token[Len(prefix) + 1]))
             \o ChildrenOrder(entries, prefix, Tail(firsts))

\* A walk over the entries in the given order that stops once max_results
\* tokens are collected: an entry the requester may not access is counted
\* as redacted, an accessible one in matching is collected
RECURSIVE WalkFrom(_, _, _, _, _, _, _, _)
WalkFrom(entries, order, matching, auth, max_results, k, tokens, redacted) ==
    IF k > Len(order) \/ Len(tokens) >= max_results
    THEN [tokens |-> tokens, redacted |-> redacted]
    ELSE LET entry == entries[order[k]]
         IN  IF ~CanAccessEntry(entry, auth)
             THEN WalkFrom(entries, order, matching, auth, max_results, k + 1,
                           tokens, redacted + 1)
             ELSE IF order[k] \in matching
             THEN WalkFrom(entries, order, matching, auth, max_results, k + 1,
                           Append(tokens, entry.token), redacted)
             ELSE WalkFrom(entries, order, matching, auth, max_results, k + 1,
                           tokens, redacted)

\* PrefixTree.find_prefix with _count_entries and _collect_entries
FindPrefixUpTo(entries, prefix, auth, max_results) ==
    LET under == {i \in 1..Len(entries) : IsPrefixOf(prefix, entries[i].token)}
    IN  IF under = {}
        THEN [tokens |-> <<>>, redacted |-> 0]
        ELSE IF ~CanEnumerate(NodeTier(entries, prefix), prefix, auth)
        THEN [tokens |-> <<>>, redacted |-> Cardinality(under)]
        ELSE WalkFrom(entries, SubtreeOrder(entries, prefix), under, auth,
                      max_results, 1, <<>>, 0)

FirstN(q, n) == SubSeq(q, 1, IF Len(q) < n THEN Len(q) ELSE n)

\* The first part that is **, or 0
FirstDoubleStar(pattern) ==
    IF \E i \in 1..Len(pattern) : pattern[i] = "**"
    THEN CHOOSE i \in 1..Len(pattern) :
             pattern[i] = "**" /\ \A j \in 1..(i - 1) : pattern[j] # "**"
    ELSE 0

\* The tokens and the redacted count LocalRegistry.find collects
FindCollect(entries, pattern, auth, max_results) ==
    LET all == 1..Len(entries)
        idx == FirstDoubleStar(pattern)
        SuffixOf(i) == Canonical(SubSeq(pattern, i + 1, Len(pattern)))
    IN  IF idx # 0
        THEN IF Len(pattern) > 1 /\ pattern[Len(pattern)] = "**"
             THEN FindPrefixUpTo(entries, SubSeq(pattern, 1, Len(pattern) - 1), auth,
                                 max_results)
             ELSE IF idx = 1
             THEN WalkFrom(entries, Ascending(all),
                           {i \in all : StrEndsWith(Canonical(entries[i].token), SuffixOf(1))},
                           auth, max_results, 1, <<>>, 0)
             ELSE LET found == FindPrefixUpTo(entries, SubSeq(pattern, 1, idx - 1), auth,
                                              max_results * 2)
                      Ends(token) == StrEndsWith(Canonical(token), SuffixOf(idx))
                  IN  [tokens |-> FirstN(SelectSeq(found.tokens, Ends), max_results),
                       redacted |-> found.redacted]
        ELSE IF \E i \in 1..Len(pattern) : pattern[i] = "*"
        THEN WalkFrom(entries, Ascending(all),
                      {i \in all : MatchesPattern(entries[i].token, pattern)},
                      auth, max_results, 1, <<>>, 0)
        ELSE [tokens |-> IF \E i \in all : entries[i].token = pattern
                         THEN <<pattern>> ELSE <<>>,
              redacted |-> 0]

\* LocalRegistry.find: the QueryResult
FindQuery(entries, pattern, auth, max_results) ==
    LET r == FindCollect(entries, pattern, auth, max_results)
    IN  [tokens |-> r.tokens,
         total_count |-> Len(r.tokens) + r.redacted,
         has_more |-> Len(r.tokens) >= max_results,
         scope_authorized |-> r.redacted = 0,
         redacted_count |-> r.redacted]

QFind(pattern, auth, max_results) ==
    lreg' = [lreg EXCEPT
                !.last = [op |-> "find", pattern |-> pattern, auth |-> auth,
                          max_results |-> max_results,
                          result |-> FindQuery(lreg.entries, pattern, auth, max_results)]]

\* LocalRegistry.register of a token not registered before, no subscriber
QRegister(token, tier) ==
    lreg' = [lreg EXCEPT
                !.entries = Append(@, [token |-> token, privacy_tier |-> tier,
                                       owner_id |-> IF tier = "public" THEN "None"
                                                    ELSE OwnerOf(token)])]

InitQuery ==
    /\ lreg = [entries |-> <<>>, subscriptions |-> <<>>, last |-> Idle]
    /\ EarlierInit
    /\ LaterInitBut("lreg")

NextQuery ==
    \/ /\ lreg.last = Idle
       /\ \E token \in QueryTokens, tier \in {"public", "personal"} :
            /\ ~HasToken(lreg, token)
            /\ QRegister(token, tier)
       /\ UNCHANGED clientsRest
    \/ /\ lreg.last = Idle
       /\ \E pattern \in QueryPatterns, auth \in Authorizations,
             max_results \in MaxResultsInputs : QFind(pattern, auth, max_results)
       /\ UNCHANGED clientsRest
    \/ LReturn /\ UNCHANGED clientsRest

SpecQuery == InitQuery /\ [][NextQuery]_vars

Returned == {lreg.last.result.tokens[k] : k \in 1..Len(lreg.last.result.tokens)}

\* C37: for an admin and a result below max_results, find returns exactly
\* the registered tokens that match the pattern by Token.matches_pattern,
\* whatever the kind of pattern.
C37_FindAsMatchesPattern ==
    (/\ lreg.last # Idle
     /\ lreg.last.auth.is_admin
     /\ Len(lreg.last.result.tokens) < lreg.last.max_results)
        => Returned = {lreg.entries[i].token : i \in
                          {j \in 1..Len(lreg.entries) :
                              MatchesPattern(lreg.entries[j].token, lreg.last.pattern)}}

\* C38: has_more is true if and only if accessible tokens that match the
\* pattern exist beyond the max_results tokens returned.
C38_HasMoreIffMore ==
    lreg.last # Idle =>
        (lreg.last.result.has_more <=>
            /\ Len(lreg.last.result.tokens) = lreg.last.max_results
            /\ \E i \in 1..Len(lreg.entries) :
                   /\ CanAccessEntry(lreg.entries[i], lreg.last.auth)
                   /\ MatchesPattern(lreg.entries[i].token, lreg.last.pattern)
                   /\ lreg.entries[i].token \notin Returned)

(***************************************************************************)
(* Composer on constitutions that repeat a rule, in base, extend and       *)
(* override mode.                                                          *)
(***************************************************************************)
RepeatRules ==
    {<<"must", "not", "use", "formal", "language">>,
     <<"always", "use", "formal", "language">>,
     <<"must", "use", "formal", "language">>}

RepeatInputs == SeqsUpTo(SeqsUpTo(RepeatRules, MaxRules), MaxConstitutions)

SpelledPlain(raw) ==
    [c \in 1..Len(raw) |-> [k \in 1..Len(raw[c]) |-> Spelled(raw[c][k], FALSE)]]

\* Composer.compose: the pairs of rules it reports, the Conflict objects of
\* base and extend and the override warnings
ComposeRepeat(mode, raw) ==
    LET consts == MkConstitutions(raw)
        r == ComposeMode(mode, MkSpelled(SpelledPlain(raw)))
        o == ComposeOverride(consts)
    IN  comp' = IF mode = "override"
                THEN [mode |-> mode, constitutions |-> consts, out |-> "result",
                      reported |-> [k \in 1..Len(o.warnings) |->
                                       <<o.warnings[k].rule, o.warnings[k].overrides>>]]
                ELSE [mode |-> mode, constitutions |-> consts, out |-> r.out,
                      reported |-> [k \in 1..Len(r.conflicts) |->
                                       <<r.conflicts[k].rule_a.w, r.conflicts[k].rule_b.w>>]]

NextRepeat ==
    \/ /\ comp = Idle
       /\ \E mode \in {"base", "extend", "override"}, raw \in RepeatInputs :
            ComposeRepeat(mode, raw)
       /\ UNCHANGED composeRest
    \/ ComposeReturn /\ UNCHANGED composeRest

SpecRepeat == InitCompose /\ [][NextRepeat]_vars

\* C39: no rule conflicts with itself, and a composition in base, extend or
\* override mode reports no conflict and no override between a rule and an
\* identical copy of it.
C39_ConflictIrreflexive ==
    comp # Idle =>
        /\ \A c \in 1..Len(comp.constitutions) :
               \A k \in 1..Len(comp.constitutions[c].rules) :
                   ~RulesConflict(comp.constitutions[c].rules[k],
                                  comp.constitutions[c].rules[k])
        /\ \A k \in 1..Len(comp.reported) : comp.reported[k][1] # comp.reported[k][2]

(***************************************************************************)
(* Several HookExecutor.execute calls on one executor.                     *)
(*                                                                         *)
(* Each call makes its chain_state dict and hands that one object to every *)
(* hook of its chain; dicts are named by number.  An action abandoned at   *)
(* its deadline keeps the dict of its HookInput and may write to it for as *)
(* long as its thread lives, also while later calls run.  A write is       *)
(* tagged with the call and the hook that made it.                         *)
(***************************************************************************)
MaxRuns == 2   \* execute calls followed

\* The chain every call gets from the registry: two enabled hooks
RunHooks == <<"first", "second">>

\* A chain_state that is one dict kept by the executor
ReusedChainState(x) == 1

\* chain_state: dict[str, Any] = {} in execute: a new object
NewChainState(x) == Len(x.dicts) + 1

\* execute up to the for loop (the chain is not empty)
XStart ==
    LET d == NewChainState(ex)
    IN  /\ Len(ex.runs) < MaxRuns
        /\ ex' = [ex EXCEPT
                    !.runs = Append(@, [pc |-> "running", i |-> 1, dict |-> d,
                                        inputs |-> <<>>, wrote |-> {}]),
                    !.dicts = IF d > Len(@) THEN Append(@, {}) ELSE @]

\* One iteration of the for loop of call r: the hook's action gets the
\* HookInput with the call's chain_state, writes to it or not, and returns
\* continue, aborts, or is abandoned at its deadline
XInvoke(r, did, writesState) ==
    LET run == ex.runs[r]
        i == run.i
        write == [run |-> r, hook |-> i, late |-> FALSE]
        over == did = "abort" \/ i = Len(RunHooks)
    IN  /\ run.pc = "running"
        /\ ex' = [ex EXCEPT
                    !.runs[r] = [run EXCEPT
                                    !.inputs = Append(@, ex.dicts[run.dict]),
                                    !.wrote = IF writesState THEN @ \cup {i} ELSE @,
                                    !.i = IF over THEN i ELSE i + 1,
                                    !.pc = IF over THEN "done" ELSE "running"],
                    !.dicts[run.dict] = IF writesState THEN @ \cup {write} ELSE @,
                    !.alive = IF did = "timeout"
                              THEN @ \cup {[run |-> r, hook |-> i, dict |-> run.dict]}
                              ELSE @]

\* An abandoned thread goes on running hook.action(hook_input) and writes
\* to the chain_state of its input
XLateWrite(task) ==
    ex' = [ex EXCEPT !.dicts[task.dict] =
                        @ \cup {[run |-> task.run, hook |-> task.hook, late |-> TRUE]}]

\* An abandoned thread ends
XLateEnd(task) ==
    ex' = [ex EXCEPT !.alive = @ \ {task}]

\* HookExecutor.__init__
InitChain ==
    /\ ex = [runs |-> <<>>, dicts |-> <<>>, alive |-> {}]
    /\ ExecRestInit

NextChain ==
    \/ XStart /\ UNCHANGED execRest
    \/ (\E r \in 1..Len(ex.runs), did \in {"continue", "abort", "timeout"},
          w \in BOOLEAN : XInvoke(r, did, w)) /\ UNCHANGED execRest
    \/ (\E task \in ex.alive : XLateWrite(task)) /\ UNCHANGED execRest
    \/ (\E task \in ex.alive : XLateEnd(task)) /\ UNCHANGED execRest

SpecChain == InitChain /\ [][NextChain]_vars

\* C40: the chain_state of an execute call is empty for its first hook,
\* holds for each later hook what the earlier hooks of the call wrote while
\* they ran, and never holds a value written by a hook of another call.
C40_ChainStatePerExecute ==
    \A r \in 1..Len(ex.runs) :
        \A k \in 1..Len(ex.runs[r].inputs) :
            /\ k = 1 => ex.runs[r].inputs[k] = {}
            /\ \A e \in ex.runs[r].inputs[k] : e.run = r
            /\ \A j \in ex.runs[r].wrote :
                   j < k => [run |-> r, hook |-> j, late |-> FALSE] \in ex.runs[r].inputs[k]

\* C40 witness: the second hook of the second call received what the first
\* hook of that call wrote, while an abandoned action of the first call had
\* written to the first call's chain_state after its deadline
C40_Witness ==
    /\ Len(ex.runs) = 2
    /\ Len(ex.runs[2].inputs) = 2
    /\ [run |-> 2, hook |-> 1, late |-> FALSE] \in ex.runs[2].inputs[2]
    /\ \E e \in ex.dicts[ex.runs[1].dict] : e.run = 1 /\ e.late

====
